---- MODULE Spec2Model ----
(***************************************************************************)
(* Family-scoped grocery inventory backend: the Family Directory           *)
(* (familyController.ts), the Inventory Ledger (inventoryController.ts)    *)
(* and the Notification read tracker (notificationController.ts).          *)
(*                                                                         *)
(* Every table is a sequence of rows; a row's id is its index (rows are    *)
(* never physically removed).  `last` is the response of the handler that  *)
(* completed last.  `reqs` holds the requests in flight when handlers of   *)
(* concurrent requests interleave at their awaits (ConcSpec).              *)
(***************************************************************************)
EXTENDS Integers, Sequences, FiniteSets, TLC

VARIABLES users, families, members, items, notifications, reads, now, last, reqs,
          merchants, orders, orderItems, store, screen

vars == <<users, families, members, items, notifications, reads, now, last, reqs,
          merchants, orders, orderItems, store, screen>>

\* The Merchant, Order and OrderItem tables.
orderVars == <<merchants, orders, orderItems>>

\* The state of the mobile client: its redux store and what its screens show.
clientVars == <<store, screen>>

(***************************************************************************)
(* Bounds of the model.                                                    *)
(***************************************************************************)
MaxItems == 2
MaxQty == 2

(* express-validator limits *)
MaxNameLen == 200

(***************************************************************************)
(* Values.                                                                 *)
(***************************************************************************)
\* Item names are character sequences, so that case folding and substring
\* search are computed and not assumed.
Milk == <<"M", "i", "l", "k">>
milk == <<"m", "i", "l", "k">>
Eggs == <<"E", "g", "g", "s">>
Names == {Milk, milk, Eggs}

\* An optional request field is <<>> (undefined) or <<v>>.
Opt(S) == {<<>>} \cup {<<v>> : v \in S}
Present(o) == Len(o) = 1

LowerChar(c) ==
  CASE c = "M" -> "m"
    [] c = "E" -> "e"
    [] c = "I" -> "i"
    [] c = "L" -> "l"
    [] OTHER -> c

\* Postgres `mode: 'insensitive'` compares the case-folded strings.
Lower(s) == [i \in DOMAIN s |-> LowerChar(s[i])]

EqualsInsensitive(a, b) == Lower(a) = Lower(b)

ContainsInsensitive(s, sub) ==
  \E i \in 1..(Len(s) - Len(sub) + 1) :
    SubSeq(Lower(s), i, i + Len(sub) - 1) = Lower(sub)

(***************************************************************************)
(* Responses.                                                              *)
(***************************************************************************)
NoResponse ==
  [op |-> "none", target |-> 0, status |-> 0, message |-> "", itemId |-> 0,
   isDuplicate |-> FALSE, previousQuantity |-> 0, listed |-> {}, updated |-> {},
   unreadCount |-> 0]

\* `target` is the id the handler looked up (0 when it answered before any
\* lookup by id); the other fields are the JSON body of the answer.
Response(op, status, message) ==
  [NoResponse EXCEPT !.op = op, !.status = status, !.message = message]

ResponseOn(op, target, status, message) ==
  [Response(op, status, message) EXCEPT !.target = target]

(***************************************************************************)
(* The mobile client before anything was fetched.                          *)
(***************************************************************************)
\* notificationsSlice initialState (error: null is <<>>)
initialState ==
  [notifications |-> <<>>, unreadCount |-> 0, isLoading |-> FALSE, error |-> <<>>]

\* The inventory items the screens hold, the family's expiryWarningDays
\* (default 2), and what InventoryScreen and HomeScreen computed from them
\* at their last render, and when; and the items as they were last sorted by
\* expiry date, by which code and in which direction.
NoScreen ==
  [items |-> <<>>, expiryWarningDays |-> 2,
   status |-> <<>>, statusAt |-> 0,
   counted |-> FALSE, expiring |-> {}, expired |-> {}, countedAt |-> 0,
   sortedBy |-> "none", sortOrder |-> "asc", sorted |-> <<>>]

(***************************************************************************)
(* Family Directory lookups used by every handler.                         *)
(***************************************************************************)
\* The membership lookup without its where clause: any row at all.
MembershipsOfAnyone(mem, userId) == DOMAIN mem

\* prisma.familyMember.findFirst({ where: { userId } }): any row of the user
\* (no orderBy, so which row comes first is up to the database).
MembershipsOf(mem, userId) == {i \in DOMAIN mem : mem[i].userId = userId}

(***************************************************************************)
(* Inventory Ledger.                                                       *)
(***************************************************************************)
\* The addItem validators without the lower bound on quantity.
ValidAddItemAnyQuantity(name, quantity) ==
  Len(name) >= 1 /\ Len(name) <= MaxNameLen

\* addItem validators
ValidAddItem(name, quantity) ==
  /\ Len(name) >= 1 /\ Len(name) <= MaxNameLen
  /\ quantity >= 0

\* The duplicate lookup without its tenant scope.
FindDuplicatesAnyFamily(its, familyId, name) ==
  {i \in DOMAIN its : EqualsInsensitive(its[i].name, name) /\ its[i].isActive}

\* The duplicate lookup without its isActive filter.
FindDuplicatesAnyState(its, familyId, name) ==
  {i \in DOMAIN its :
     its[i].familyId = familyId /\ EqualsInsensitive(its[i].name, name)}

\* findFirst({ familyId, name: { equals, insensitive }, isActive: true })
FindDuplicates(its, familyId, name) ==
  {i \in DOMAIN its :
     /\ its[i].familyId = familyId
     /\ EqualsInsensitive(its[i].name, name)
     /\ its[i].isActive}

\* The merge overwriting the quantity instead of adding to it.
MergeQuantityOverwrite(its, id, readQuantity, quantity) ==
  [its EXCEPT ![id].quantity = quantity]

\* inventoryItem.update({ where: { id }, data: { quantity: existing + q } })
MergeQuantity(its, id, readQuantity, quantity) ==
  [its EXCEPT ![id].quantity = readQuantity + quantity]

\* inventoryItem.create({ data: { familyId, name, quantity, ..., addedBy } });
\* the columns no handler reads or rewrites (unit, barcode, imageUrl) are not
\* part of the row here.  The add requests of the model carry the category
\* "Dairy" and neither an expiry date nor notes, which are stored as null.
CreateItem(its, familyId, name, quantity, userId) ==
  Append(its, [familyId |-> familyId, name |-> name, quantity |-> quantity,
               expiryDate |-> <<>>, category |-> "Dairy", notes |-> <<>>,
               addedBy |-> userId, isActive |-> TRUE])

\* The lookup by id without its isActive filter.
FindOwnAnyState(its, familyId, itemId) ==
  {i \in DOMAIN its : i = itemId /\ its[i].familyId = familyId}

\* findFirst({ id, familyId, isActive: true }) of updateItem and deleteItem
FindOwnActive(its, familyId, itemId) ==
  {i \in DOMAIN its :
     i = itemId /\ its[i].familyId = familyId /\ its[i].isActive}

\* The `where` of listItems: active rows of the family, optionally filtered by
\* a case-insensitive substring of the name.
ListWhere(its, familyId, search) ==
  {i \in DOMAIN its :
     /\ its[i].familyId = familyId
     /\ its[i].isActive
     /\ (Present(search) /\ Len(search[1]) > 0
           => ContainsInsensitive(its[i].name, search[1]))}

\* Dates travel as ISO 8601 strings and are stored as days: new Date(s).
IsoDates == {"2025-01-01", "2025-01-03"}
ParseDate(s) == CASE s = "2025-01-01" -> 1
                  [] s = "2025-01-03" -> 3

\* The fields a PATCH body may define; an undefined field is <<>>.
UpdateFields == {"quantity", "expiryDate", "name", "category", "notes"}

\* A body that defines at most quantity and name.
QuantityAndName(quantity, name) ==
  [quantity |-> quantity, expiryDate |-> <<>>, name |-> name,
   category |-> <<>>, notes |-> <<>>]

\* updateItem validators (every field optional)
ValidUpdateItem(body) ==
  /\ Present(body.quantity) => body.quantity[1] >= 0
  /\ Present(body.expiryDate) => body.expiryDate[1] \in IsoDates
  /\ Present(body.name) => Len(body.name[1]) >= 1 /\ Len(body.name[1]) <= MaxNameLen

\* The update writing every field of the row, a field the body leaves out as
\* null.
ApplyUpdateWholeRow(row, body) ==
  [row EXCEPT
     !.quantity = IF Present(body.quantity) THEN body.quantity[1] ELSE @,
     !.expiryDate = IF Present(body.expiryDate)
                    THEN <<ParseDate(body.expiryDate[1])>> ELSE <<>>,
     !.name = IF Present(body.name) THEN body.name[1] ELSE @,
     !.category = IF Present(body.category) THEN body.category[1] ELSE @,
     !.notes = IF Present(body.notes) THEN body.notes ELSE <<>>]

\* updateData: only the fields the body defines.  A defined expiryDate has
\* passed isISO8601, so it is a non-empty string and is stored as a Date.
ApplyUpdate(row, body) ==
  [row EXCEPT
     !.quantity = IF Present(body.quantity) THEN body.quantity[1] ELSE @,
     !.expiryDate = IF Present(body.expiryDate)
                    THEN <<ParseDate(body.expiryDate[1])>> ELSE @,
     !.name = IF Present(body.name) THEN body.name[1] ELSE @,
     !.category = IF Present(body.category) THEN body.category[1] ELSE @,
     !.notes = IF Present(body.notes) THEN body.notes ELSE @]

\* Object.keys(updateData)
UpdatedKeys(body) == {f \in UpdateFields : Present(body[f])}

\* inventoryItem.update({ where: { id }, data: { isActive: false } })
SoftDelete(its, id) == [its EXCEPT ![id].isActive = FALSE]

UserIds == DOMAIN users
ItemIds == 1..(MaxItems + 1)
\* Request bodies: the well-formed ones, and one malformed body per validated
\* field (a negative quantity, an empty name).
AddRequests ==
  {[name |-> n, quantity |-> q] : n \in Names, q \in {0, 1}}
    \cup {[name |-> <<>>, quantity |-> 1], [name |-> Milk, quantity |-> -1]}
UpdateRequests ==
  {QuantityAndName(q, n) : q \in Opt({0, 1}), n \in Opt(Names)}
    \cup {QuantityAndName(<<-1>>, <<>>), QuantityAndName(<<>>, <<<<>>>>)}
Searches == Opt({<<"I", "L">>})

OtherUnchanged ==
  UNCHANGED <<users, families, members, notifications, reads, now, reqs,
              orderVars, clientVars>>

\* What a handler does to the item table and what it answers.
Outcome(its, resp) == [items |-> its, resp |-> resp]

\* POST /inventory: every outcome of the handler on the tables `its`, `mem`.
AddItemOutcomes(its, mem, userId, name, quantity) ==
  IF ~ValidAddItem(name, quantity)
  THEN {Outcome(its, Response("addItem", 400, "Validation error"))}
  ELSE IF MembershipsOf(mem, userId) = {}
  THEN {Outcome(its, Response("addItem", 404, "User not part of any family"))}
  ELSE UNION {
    LET fam == mem[m].familyId
        dups == FindDuplicates(its, fam, name)
    IN IF dups # {}
       THEN {Outcome(MergeQuantity(its, e, its[e].quantity, quantity),
                     [Response("addItem", 201, "Item quantity updated")
                        EXCEPT !.itemId = e, !.isDuplicate = TRUE,
                               !.previousQuantity = its[e].quantity]) : e \in dups}
       ELSE {Outcome(CreateItem(its, fam, name, quantity, userId),
                     [Response("addItem", 201, "Item added successfully")
                        EXCEPT !.itemId = Len(its) + 1])}
    : m \in MembershipsOf(mem, userId)}

\* PATCH /inventory/:itemId
UpdateItemOutcomes(its, mem, userId, itemId, body) ==
  IF ~ValidUpdateItem(body)
  THEN {Outcome(its, Response("updateItem", 400, "Validation error"))}
  ELSE IF MembershipsOf(mem, userId) = {}
  THEN {Outcome(its, Response("updateItem", 404, "User not part of any family"))}
  ELSE {IF FindOwnActive(its, mem[m].familyId, itemId) = {}
        THEN Outcome(its, ResponseOn("updateItem", itemId, 404, "Item not found"))
        ELSE Outcome([its EXCEPT ![itemId] = ApplyUpdate(@, body)],
                     [ResponseOn("updateItem", itemId, 200, "Item updated successfully")
                        EXCEPT !.itemId = itemId,
                               !.updated = UpdatedKeys(body)])
        : m \in MembershipsOf(mem, userId)}

\* DELETE /inventory/:itemId
DeleteItemOutcomes(its, mem, userId, itemId) ==
  IF MembershipsOf(mem, userId) = {}
  THEN {Outcome(its, Response("deleteItem", 404, "User not part of any family"))}
  ELSE {IF FindOwnActive(its, mem[m].familyId, itemId) = {}
        THEN Outcome(its, ResponseOn("deleteItem", itemId, 404, "Item not found"))
        ELSE Outcome(SoftDelete(its, itemId),
                     ResponseOn("deleteItem", itemId, 200, "Item deleted successfully"))
        : m \in MembershipsOf(mem, userId)}

\* GET /inventory (the rows matching `where`; every page is drawn from them)
ListItemsOutcomes(its, mem, userId, search) ==
  IF MembershipsOf(mem, userId) = {}
  THEN {Outcome(its, Response("listItems", 404, "User not part of any family"))}
  ELSE {Outcome(its, [Response("listItems", 200, "")
                        EXCEPT !.listed = ListWhere(its, mem[m].familyId, search)])
        : m \in MembershipsOf(mem, userId)}

\* The model keeps the table within MaxItems rows and quantities within MaxQty.
WithinBounds(its) ==
  /\ Len(its) <= MaxItems
  /\ \A i \in DOMAIN its : its[i].quantity <= MaxQty

Answer(outcomes) ==
  /\ OtherUnchanged
  /\ \E o \in outcomes :
       /\ WithinBounds(o.items)
       /\ items' = o.items
       /\ last' = o.resp

AddItem(userId, name, quantity) ==
  Answer(AddItemOutcomes(items, members, userId, name, quantity))

UpdateItem(userId, itemId, body) ==
  Answer(UpdateItemOutcomes(items, members, userId, itemId, body))

DeleteItem(userId, itemId) ==
  Answer(DeleteItemOutcomes(items, members, userId, itemId))

ListItems(userId, search) ==
  Answer(ListItemsOutcomes(items, members, userId, search))

(***************************************************************************)
(* Spec: the inventory handlers, one request at a time, over a directory   *)
(* of two families.                                                        *)
(***************************************************************************)
RegisteredUsers ==
  <<[phone |-> "p1"], [phone |-> "p2"], [phone |-> "p3"], [phone |-> "p4"]>>

TwoFamilies ==
  <<[inviteCode |-> "AAAAAA", ownerId |-> 1], [inviteCode |-> "BBBBBB", ownerId |-> 3]>>

\* Family 1 = {1 owner, 2 member}, family 2 = {3 owner}; user 4 has no family.
SimpleMembers ==
  <<[familyId |-> 1, userId |-> 1, role |-> "owner", isActive |-> TRUE],
    [familyId |-> 1, userId |-> 2, role |-> "member", isActive |-> TRUE],
    [familyId |-> 2, userId |-> 3, role |-> "owner", isActive |-> TRUE]>>

Init ==
  /\ users = RegisteredUsers
  /\ families = TwoFamilies
  /\ members = SimpleMembers
  /\ items = <<>>
  /\ notifications = <<>>
  /\ reads = <<>>
  /\ now = 0
  /\ last = NoResponse
  /\ reqs = <<>>
  /\ merchants = <<>>
  /\ orders = <<>>
  /\ orderItems = <<>>
  /\ store = initialState
  /\ screen = NoScreen

AddItemStep ==
  \E u \in UserIds, r \in AddRequests : AddItem(u, r.name, r.quantity)

UpdateItemStep ==
  \E u \in UserIds, id \in ItemIds, r \in UpdateRequests :
    UpdateItem(u, id, r)

DeleteItemStep == \E u \in UserIds, id \in ItemIds : DeleteItem(u, id)

ListItemsStep ==
  \E u \in UserIds, s \in Searches : ListItems(u, s)

Next == AddItemStep \/ UpdateItemStep \/ DeleteItemStep \/ ListItemsStep

Spec == Init /\ [][Next]_vars

(***************************************************************************)
(* Family Directory (familyController.ts).                                 *)
(***************************************************************************)
\* generateInviteCode(): Math.random().toString(36).substring(2, 8) in upper
\* case -- six characters as a rule, fewer when the random fraction is short
\* in base 36 ("I" for 0.5).
SixCharCodes == {"AAAAAA", "BBBBBB"}
GeneratedCodes == SixCharCodes \cup {"I"}

FamilyNames == {"Home", ""}
Phones == {"p1", "p2", "p3"}
PhoneInputs == Phones \cup {"not-a-phone"}
Roles == {"admin", "member"}

\* createFamily validator: name of 1..100 characters
ValidCreateFamily(name) == name # ""

\* joinFamily validator: inviteCode of exactly 6 characters
ValidJoinFamily(inviteCode) == inviteCode \in SixCharCodes \cup {"ZZZZZZ"}

\* addMember validators: name, isMobilePhone, role optional in [admin, member]
ValidAddMember(phone, role) ==
  /\ phone \in Phones
  /\ Present(role) => role[1] \in Roles

\* The membership check looking at ownership only.
OwnsAFamily(mem, userId) ==
  \E i \in DOMAIN mem : mem[i].userId = userId /\ mem[i].role = "owner"

\* findFirst({ where: { userId } }) of createFamily and joinFamily
AlreadyInAFamily(mem, userId) == MembershipsOf(mem, userId) # {}

\* The permission lookup without its role filter.
ActingMemberAnyRole(mem, familyId, userId) ==
  {i \in DOMAIN mem : mem[i].familyId = familyId /\ mem[i].userId = userId}

\* findFirst({ familyId, userId, role: { in: ['owner', 'admin'] } })
ActingOwnerOrAdmin(mem, familyId, userId) ==
  {i \in DOMAIN mem :
     /\ mem[i].familyId = familyId
     /\ mem[i].userId = userId
     /\ mem[i].role \in {"owner", "admin"}}

\* findFirst({ familyId, userId: user.id }) of addMember
MemberOfFamily(mem, familyId, userId) ==
  {i \in DOMAIN mem : mem[i].familyId = familyId /\ mem[i].userId = userId}

\* family.findUnique({ where: { inviteCode } })
FamilyByCode(fams, inviteCode) ==
  {f \in DOMAIN fams : fams[f].inviteCode = inviteCode}

\* user.findUnique({ where: { phone } })
UserByPhone(usrs, phone) == {u \in DOMAIN usrs : usrs[u].phone = phone}

MemberRow(familyId, userId, role) ==
  [familyId |-> familyId, userId |-> userId, role |-> role, isActive |-> TRUE]

DirOutcome(usrs, fams, mem, resp) ==
  [users |-> usrs, families |-> fams, members |-> mem, resp |-> resp]

\* POST /families
CreateFamilyOutcomes(usrs, fams, mem, userId, name) ==
  IF ~ValidCreateFamily(name)
  THEN {DirOutcome(usrs, fams, mem, Response("createFamily", 400, "Validation error"))}
  ELSE IF AlreadyInAFamily(mem, userId)
  THEN {DirOutcome(usrs, fams, mem,
                   Response("createFamily", 400, "User already belongs to a family"))}
  ELSE {IF FamilyByCode(fams, code) # {}
        THEN \* unique inviteCode violated: the create throws
             DirOutcome(usrs, fams, mem,
                        Response("createFamily", 500, "Internal server error"))
        ELSE DirOutcome(usrs,
                        Append(fams, [name |-> name, inviteCode |-> code,
                                      ownerId |-> userId]),
                        Append(mem, MemberRow(Len(fams) + 1, userId, "owner")),
                        ResponseOn("createFamily", Len(fams) + 1, 201,
                                   "Family created successfully"))
        : code \in GeneratedCodes}

\* POST /families/join
JoinFamilyOutcomes(usrs, fams, mem, userId, inviteCode) ==
  IF ~ValidJoinFamily(inviteCode)
  THEN {DirOutcome(usrs, fams, mem, Response("joinFamily", 400, "Validation error"))}
  ELSE IF AlreadyInAFamily(mem, userId)
  THEN {DirOutcome(usrs, fams, mem,
                   Response("joinFamily", 400, "User already belongs to a family"))}
  ELSE IF FamilyByCode(fams, inviteCode) = {}
  THEN {DirOutcome(usrs, fams, mem, Response("joinFamily", 404, "Invalid invite code"))}
  ELSE {DirOutcome(usrs, fams, Append(mem, MemberRow(f, userId, "member")),
                   ResponseOn("joinFamily", f, 200, "Successfully joined family"))
        : f \in FamilyByCode(fams, inviteCode)}

\* POST /families/:familyId/members
AddMemberOutcomes(usrs, fams, mem, userId, familyId, phone, role) ==
  IF ~ValidAddMember(phone, role)
  THEN {DirOutcome(usrs, fams, mem, Response("addMember", 400, "Validation error"))}
  ELSE IF ActingOwnerOrAdmin(mem, familyId, userId) = {}
  THEN {DirOutcome(usrs, fams, mem,
                   ResponseOn("addMember", familyId, 403, "Insufficient permissions"))}
  ELSE
    LET found == UserByPhone(usrs, phone)
        usrs2 == IF found = {} THEN Append(usrs, [phone |-> phone]) ELSE usrs
        user == IF found = {} THEN Len(usrs) + 1 ELSE CHOOSE u \in found : TRUE
    IN IF MemberOfFamily(mem, familyId, user) # {}
       THEN {DirOutcome(usrs2, fams, mem,
                        ResponseOn("addMember", familyId, 400,
                                   "User is already a family member"))}
       ELSE {DirOutcome(usrs2, fams,
                        Append(mem, MemberRow(familyId, user,
                                              IF Present(role) THEN role[1] ELSE "member")),
                        ResponseOn("addMember", familyId, 201,
                                   "Member added successfully"))}

MaxFamilies == 2
MaxMembers == 3

FamilyIds == 1..(MaxFamilies + 1)

DirAnswer(outcomes) ==
  /\ UNCHANGED <<items, notifications, reads, now, reqs, orderVars, clientVars>>
  /\ \E o \in outcomes :
       /\ Len(o.families) <= MaxFamilies
       /\ Len(o.members) <= MaxMembers
       /\ users' = o.users
       /\ families' = o.families
       /\ members' = o.members
       /\ last' = o.resp

CreateFamily(userId, name) ==
  DirAnswer(CreateFamilyOutcomes(users, families, members, userId, name))

JoinFamily(userId, inviteCode) ==
  DirAnswer(JoinFamilyOutcomes(users, families, members, userId, inviteCode))

AddMember(userId, familyId, phone, role) ==
  DirAnswer(AddMemberOutcomes(users, families, members, userId, familyId, phone, role))

JoinCodes == GeneratedCodes \cup {"ZZZZZZ"}
RoleInputs == Opt(Roles \cup {"owner"})

\* Two registered users, no family yet.
DirInit ==
  /\ users = <<[phone |-> "p1"], [phone |-> "p2"]>>
  /\ families = <<>>
  /\ members = <<>>
  /\ items = <<>>
  /\ notifications = <<>>
  /\ reads = <<>>
  /\ now = 0
  /\ last = NoResponse
  /\ reqs = <<>>
  /\ merchants = <<>>
  /\ orders = <<>>
  /\ orderItems = <<>>
  /\ store = initialState
  /\ screen = NoScreen

CreateFamilyStep == \E u \in UserIds, n \in FamilyNames : CreateFamily(u, n)

JoinFamilyStep == \E u \in UserIds, c \in JoinCodes : JoinFamily(u, c)

AddMemberStep ==
  \E u \in UserIds, f \in FamilyIds, p \in PhoneInputs, r \in RoleInputs :
    AddMember(u, f, p, r)

DirNext == CreateFamilyStep \/ JoinFamilyStep \/ AddMemberStep

DirSpec == DirInit /\ [][DirNext]_vars

(***************************************************************************)
(* Notification fan-out and read tracker (notificationController.ts).      *)
(***************************************************************************)
MaxNotifications == 1
MaxReads == 3
MaxClock == 1

\* The unread count looking for a read row of any user.
UnreadCountAnyReader(nots, rds, familyId, userId) ==
  Cardinality({n \in DOMAIN nots :
                 /\ nots[n].familyId = familyId
                 /\ ~\E r \in DOMAIN rds : rds[r].notificationId = n})

\* notification.count({ where: { familyId, reads: { none: { userId } } } })
UnreadCount(nots, rds, familyId, userId) ==
  Cardinality({n \in DOMAIN nots :
                 /\ nots[n].familyId = familyId
                 /\ ~\E r \in DOMAIN rds :
                      rds[r].notificationId = n /\ rds[r].userId = userId})

\* notification.findFirst({ where: { id, familyId } })
FindOwnNotification(nots, familyId, notificationId) ==
  {n \in DOMAIN nots : n = notificationId /\ nots[n].familyId = familyId}

\* The upsert as a plain create.
AlwaysCreateRead(rds, notificationId, userId, time) ==
  Append(rds, [notificationId |-> notificationId, userId |-> userId,
               readAt |-> time])

\* notificationRead.upsert({ where: { notificationId_userId }, update: { readAt },
\*                           create: { notificationId, userId } })
UpsertRead(rds, notificationId, userId, time) ==
  LET hit == {r \in DOMAIN rds :
                rds[r].notificationId = notificationId /\ rds[r].userId = userId}
  IN IF hit # {}
     THEN [r \in DOMAIN rds |-> IF r \in hit THEN [rds[r] EXCEPT !.readAt = time]
                                             ELSE rds[r]]
     ELSE Append(rds, [notificationId |-> notificationId, userId |-> userId,
                       readAt |-> time])

\* The default recipients taken from every family.
ActiveMemberIdsAnyFamily(mem, familyId) ==
  {mem[i].userId : i \in {j \in DOMAIN mem : mem[j].isActive}}

\* familyMember.findMany({ familyId, isActive: true }).map(m => m.user.id)
ActiveMemberIds(mem, familyId) ==
  {mem[i].userId : i \in {j \in DOMAIN mem : mem[j].familyId = familyId /\ mem[j].isActive}}

\* send validators: type, title and message are required strings
ValidSend(title) == title # ""

NoteOutcome(nots, rds, resp) == [notifications |-> nots, reads |-> rds, resp |-> resp]

\* GET /notifications
GetNotificationsOutcomes(nots, rds, mem, userId) ==
  IF MembershipsOf(mem, userId) = {}
  THEN {NoteOutcome(nots, rds, Response("getNotifications", 404, "User not part of any family"))}
  ELSE {NoteOutcome(nots, rds,
          [Response("getNotifications", 200, "")
             EXCEPT !.listed = {n \in DOMAIN nots : nots[n].familyId = mem[m].familyId},
                    !.unreadCount = UnreadCount(nots, rds, mem[m].familyId, userId)])
        : m \in MembershipsOf(mem, userId)}

\* POST /notifications/:notificationId/read
MarkReadOutcomes(nots, rds, mem, userId, notificationId, time) ==
  IF MembershipsOf(mem, userId) = {}
  THEN {NoteOutcome(nots, rds, Response("markRead", 404, "User not part of any family"))}
  ELSE {IF FindOwnNotification(nots, mem[m].familyId, notificationId) = {}
        THEN NoteOutcome(nots, rds,
                         ResponseOn("markRead", notificationId, 404, "Notification not found"))
        ELSE NoteOutcome(nots, UpsertRead(rds, notificationId, userId, time),
                         ResponseOn("markRead", notificationId, 200,
                                    "Notification marked as read"))
        : m \in MembershipsOf(mem, userId)}

\* createNotification(familyId, type, title, message, recipients, data)
CreateNotification(nots, familyId, recipients) ==
  Append(nots, [familyId |-> familyId, recipients |-> recipients])

\* POST /notifications/send
SendOutcomes(nots, rds, mem, userId, title, recipients) ==
  IF ~ValidSend(title)
  THEN {NoteOutcome(nots, rds, Response("send", 400, "Validation error"))}
  ELSE IF MembershipsOf(mem, userId) = {}
  THEN {NoteOutcome(nots, rds, Response("send", 404, "User not part of any family"))}
  ELSE {LET fam == mem[m].familyId
            to == IF ~Present(recipients) \/ recipients[1] = {}
                  THEN ActiveMemberIds(mem, fam)
                  ELSE recipients[1]
        IN NoteOutcome(CreateNotification(nots, fam, to), rds,
                       [Response("send", 201, "Notification sent successfully")
                          EXCEPT !.itemId = Len(nots) + 1])
        : m \in MembershipsOf(mem, userId)}

NoteAnswer(outcomes) ==
  /\ UNCHANGED <<users, families, members, items, now, reqs, orderVars, clientVars>>
  /\ \E o \in outcomes :
       /\ Len(o.notifications) <= MaxNotifications
       /\ Len(o.reads) <= MaxReads
       /\ notifications' = o.notifications
       /\ reads' = o.reads
       /\ last' = o.resp

GetNotifications(userId) ==
  NoteAnswer(GetNotificationsOutcomes(notifications, reads, members, userId))

MarkRead(userId, notificationId) ==
  NoteAnswer(MarkReadOutcomes(notifications, reads, members, userId, notificationId, now))

Send(userId, title, recipients) ==
  NoteAnswer(SendOutcomes(notifications, reads, members, userId, title, recipients))

\* Time passes between requests.
Tick ==
  /\ now < MaxClock
  /\ now' = now + 1
  /\ UNCHANGED <<users, families, members, items, notifications, reads, last, reqs,
                 orderVars, clientVars>>

NotificationIds == 1..(MaxNotifications + 1)
Titles == {"Low stock", ""}
RecipientInputs == Opt({{}, {1, 3}})

GetNotificationsStep == \E u \in UserIds : GetNotifications(u)

MarkReadStep == \E u \in UserIds, n \in NotificationIds : MarkRead(u, n)

SendStep == \E u \in UserIds, t \in Titles, r \in RecipientInputs : Send(u, t, r)

NoteNext == GetNotificationsStep \/ MarkReadStep \/ SendStep \/ Tick

\* The notification handlers, one request at a time, over the directory of Init.
NoteSpec == Init /\ [][NoteNext]_vars

(***************************************************************************)
(* ConcSpec: addItem requests handled concurrently.  A handler runs up to  *)
(* its next await in one step; every await is one database round trip,    *)
(* and the round trips of different requests interleave freely: the        *)
(* handler opens no transaction and takes no lock.                         *)
(***************************************************************************)
MaxRequests == 2

\* A request in flight: its body, where its handler stands, and the locals
\* the handler keeps across its awaits (familyMember, existingItem).
NewRequest(userId, name, quantity) ==
  [userId |-> userId, name |-> name, quantity |-> quantity, pc |-> "membership",
   familyId |-> 0, existing |-> 0, readQuantity |-> 0, resp |-> NoResponse]

Finish(r, resp) == [r EXCEPT !.pc = "done", !.resp = resp]

ConcUnchanged ==
  UNCHANGED <<users, families, members, notifications, reads, now, orderVars, clientVars>>

\* The request arrives; the validators run before the first await.
AddItemReceive(userId, name, quantity) ==
  /\ Len(reqs) < MaxRequests
  /\ ConcUnchanged
  /\ UNCHANGED items
  /\ IF ~ValidAddItem(name, quantity)
     THEN /\ reqs' = Append(reqs, Finish(NewRequest(userId, name, quantity),
                                         Response("addItem", 400, "Validation error")))
          /\ last' = Response("addItem", 400, "Validation error")
     ELSE /\ reqs' = Append(reqs, NewRequest(userId, name, quantity))
          /\ UNCHANGED last

\* await prisma.familyMember.findFirst({ where: { userId } })
AddItemFindMembership(k) ==
  /\ reqs[k].pc = "membership"
  /\ ConcUnchanged
  /\ UNCHANGED items
  /\ IF MembershipsOf(members, reqs[k].userId) = {}
     THEN /\ reqs' = [reqs EXCEPT ![k] =
                        Finish(@, Response("addItem", 404, "User not part of any family"))]
          /\ last' = Response("addItem", 404, "User not part of any family")
     ELSE /\ \E m \in MembershipsOf(members, reqs[k].userId) :
               reqs' = [reqs EXCEPT ![k].pc = "duplicate",
                                    ![k].familyId = members[m].familyId]
          /\ UNCHANGED last

\* await prisma.inventoryItem.findFirst({ familyId, name insensitive, isActive })
AddItemFindDuplicate(k) ==
  /\ reqs[k].pc = "duplicate"
  /\ ConcUnchanged
  /\ UNCHANGED <<items, last>>
  /\ LET dups == FindDuplicates(items, reqs[k].familyId, reqs[k].name)
     IN IF dups = {}
        THEN reqs' = [reqs EXCEPT ![k].pc = "create"]
        ELSE \E e \in dups :
               reqs' = [reqs EXCEPT ![k].pc = "merge", ![k].existing = e,
                                    ![k].readQuantity = items[e].quantity]

\* await prisma.inventoryItem.update(...): the quantity written is computed
\* from the row as it was read by the earlier findFirst.
AddItemMerge(k) ==
  /\ reqs[k].pc = "merge"
  /\ ConcUnchanged
  /\ LET its == MergeQuantity(items, reqs[k].existing, reqs[k].readQuantity,
                              reqs[k].quantity)
         resp == [Response("addItem", 201, "Item quantity updated")
                    EXCEPT !.itemId = reqs[k].existing, !.isDuplicate = TRUE,
                           !.previousQuantity = reqs[k].readQuantity]
     IN /\ WithinBounds(its)
        /\ items' = its
        /\ reqs' = [reqs EXCEPT ![k] = Finish(@, resp)]
        /\ last' = resp

\* await prisma.inventoryItem.create(...)
AddItemCreate(k) ==
  /\ reqs[k].pc = "create"
  /\ ConcUnchanged
  /\ LET its == CreateItem(items, reqs[k].familyId, reqs[k].name,
                           reqs[k].quantity, reqs[k].userId)
         resp == [Response("addItem", 201, "Item added successfully")
                    EXCEPT !.itemId = Len(items) + 1]
     IN /\ WithinBounds(its)
        /\ items' = its
        /\ reqs' = [reqs EXCEPT ![k] = Finish(@, resp)]
        /\ last' = resp

AddItemReceiveStep ==
  \E u \in UserIds, r \in AddRequests : AddItemReceive(u, r.name, r.quantity)

AddItemFindMembershipStep == \E k \in DOMAIN reqs : AddItemFindMembership(k)

AddItemFindDuplicateStep == \E k \in DOMAIN reqs : AddItemFindDuplicate(k)

AddItemMergeStep == \E k \in DOMAIN reqs : AddItemMerge(k)

AddItemCreateStep == \E k \in DOMAIN reqs : AddItemCreate(k)

ConcNext ==
  \/ AddItemReceiveStep
  \/ AddItemFindMembershipStep
  \/ AddItemFindDuplicateStep
  \/ AddItemMergeStep
  \/ AddItemCreateStep

ConcSpec == Init /\ [][ConcNext]_vars

(***************************************************************************)
(* Merchant Registry (merchantController) and Order Aggregator             *)
(* (orderController).                                                      *)
(***************************************************************************)
MaxMerchants == 1
MaxOrders == 1
MaxOrderItems == 2

\* Order item quantities are in tenths; isFloat({ min: 0.1 }).
MinOrderQuantity == 1

\* The empty string as an id: a string for the validators, falsy for `if`.
EmptyId == 0

MerchantNames == {"Shop", "Mart"}
OrderStatuses == {"pending", "processing", "completed", "cancelled"}

\* The status a new Order row gets (the column default).
NewOrderStatus == "pending"

\* addMerchant validators: name of 1..200 characters (type is given)
ValidAddMerchant(name) == name # ""

\* updateMerchant validators (every field optional)
ValidUpdateMerchant(name) == Present(name) => name[1] # ""

\* The merchant lookup without its tenant scope.
FindActiveMerchantAnyFamily(mer, familyId, merchantId) ==
  {i \in DOMAIN mer : i = merchantId /\ mer[i].isActive}

\* merchant.findFirst({ id, familyId, isActive: true })
FindOwnActiveMerchant(mer, familyId, merchantId) ==
  {i \in DOMAIN mer :
     i = merchantId /\ mer[i].familyId = familyId /\ mer[i].isActive}

\* The order lookup without its tenant scope.
FindOrderAnyFamily(ord, familyId, orderId) == {i \in DOMAIN ord : i = orderId}

\* order.findFirst({ id, familyId })
FindOwnOrder(ord, familyId, orderId) ==
  {i \in DOMAIN ord : i = orderId /\ ord[i].familyId = familyId}

OrdOutcome(mer, ord, oit, resp) ==
  [merchants |-> mer, orders |-> ord, orderItems |-> oit, resp |-> resp]

\* POST /merchants
AddMerchantOutcomes(mer, ord, oit, mem, userId, name) ==
  IF ~ValidAddMerchant(name)
  THEN {OrdOutcome(mer, ord, oit, Response("addMerchant", 400, "Validation error"))}
  ELSE IF MembershipsOf(mem, userId) = {}
  THEN {OrdOutcome(mer, ord, oit,
                   Response("addMerchant", 404, "User not part of any family"))}
  ELSE {OrdOutcome(Append(mer, [familyId |-> mem[m].familyId, name |-> name,
                                isActive |-> TRUE]),
                   ord, oit,
                   [Response("addMerchant", 201, "Merchant added successfully")
                      EXCEPT !.itemId = Len(mer) + 1])
        : m \in MembershipsOf(mem, userId)}

\* PATCH /merchants/:merchantId
UpdateMerchantOutcomes(mer, ord, oit, mem, userId, merchantId, name) ==
  IF ~ValidUpdateMerchant(name)
  THEN {OrdOutcome(mer, ord, oit, Response("updateMerchant", 400, "Validation error"))}
  ELSE IF MembershipsOf(mem, userId) = {}
  THEN {OrdOutcome(mer, ord, oit,
                   Response("updateMerchant", 404, "User not part of any family"))}
  ELSE {IF FindOwnActiveMerchant(mer, mem[m].familyId, merchantId) = {}
        THEN OrdOutcome(mer, ord, oit,
                        ResponseOn("updateMerchant", merchantId, 404, "Merchant not found"))
        ELSE OrdOutcome([mer EXCEPT ![merchantId].name =
                                      IF Present(name) THEN name[1] ELSE @],
                        ord, oit,
                        [ResponseOn("updateMerchant", merchantId, 200,
                                    "Merchant updated successfully")
                           EXCEPT !.itemId = merchantId,
                                  !.updated = IF Present(name) THEN {"name"} ELSE {}])
        : m \in MembershipsOf(mem, userId)}

\* DELETE /merchants/:merchantId (soft delete)
DeleteMerchantOutcomes(mer, ord, oit, mem, userId, merchantId) ==
  IF MembershipsOf(mem, userId) = {}
  THEN {OrdOutcome(mer, ord, oit,
                   Response("deleteMerchant", 404, "User not part of any family"))}
  ELSE {IF FindOwnActiveMerchant(mer, mem[m].familyId, merchantId) = {}
        THEN OrdOutcome(mer, ord, oit,
                        ResponseOn("deleteMerchant", merchantId, 404, "Merchant not found"))
        ELSE OrdOutcome([mer EXCEPT ![merchantId].isActive = FALSE], ord, oit,
                        ResponseOn("deleteMerchant", merchantId, 200,
                                   "Merchant deleted successfully"))
        : m \in MembershipsOf(mem, userId)}

\* The createOrder validators with isArray() in place of isArray({ min: 1 }).
ValidCreateOrderAnyLength(body) ==
  \A i \in DOMAIN body :
    /\ Len(body[i].name) >= 1 /\ Len(body[i].name) <= MaxNameLen
    /\ body[i].quantity >= MinOrderQuantity

\* createOrder validators: items is an array of at least one element, each
\* with a name of 1..200 characters and a quantity of at least 0.1.
ValidCreateOrder(body) ==
  /\ Len(body) >= 1
  /\ \A i \in DOMAIN body :
       /\ Len(body[i].name) >= 1 /\ Len(body[i].name) <= MaxNameLen
       /\ body[i].quantity >= MinOrderQuantity

\* `if (merchantId)`: undefined and the empty string skip the lookup.
Truthy(id) == Present(id) /\ id[1] # EmptyId

\* The order items with the name of the first item on every row.
OrderItemRowsFirstName(orderId, body) ==
  [i \in DOMAIN body |->
     [orderId |-> orderId, name |-> body[1].name, quantity |-> body[i].quantity,
      unit |-> IF Present(body[i].unit) THEN body[i].unit[1] ELSE "pieces",
      inventoryItemId |-> body[i].inventoryItemId]]

\* items.map(item => ({ name, quantity: Number(quantity), unit: unit ||
\* 'pieces', notes, inventoryItemId }))
OrderItemRows(orderId, body) ==
  [i \in DOMAIN body |->
     [orderId |-> orderId, name |-> body[i].name, quantity |-> body[i].quantity,
      unit |-> IF Present(body[i].unit) THEN body[i].unit[1] ELSE "pieces",
      inventoryItemId |-> body[i].inventoryItemId]]

\* The references of the nested create that the database refuses: a
\* merchantId or an inventoryItemId that is the id of no row.
DanglingReference(mer, its, merchantId, body) ==
  \/ Present(merchantId) /\ merchantId[1] \notin DOMAIN mer
  \/ \E i \in DOMAIN body :
       Present(body[i].inventoryItemId) /\ body[i].inventoryItemId[1] \notin DOMAIN its

\* POST /orders: the Order row and its OrderItem rows are one nested create.
CreateOrderOutcomes(mer, ord, oit, its, mem, userId, merchantId, body) ==
  IF ~ValidCreateOrder(body)
  THEN {OrdOutcome(mer, ord, oit, Response("createOrder", 400, "Validation error"))}
  ELSE IF MembershipsOf(mem, userId) = {}
  THEN {OrdOutcome(mer, ord, oit,
                   Response("createOrder", 404, "User not part of any family"))}
  ELSE {IF Truthy(merchantId)
           /\ FindOwnActiveMerchant(mer, mem[m].familyId, merchantId[1]) = {}
        THEN OrdOutcome(mer, ord, oit,
                        ResponseOn("createOrder", merchantId[1], 404, "Merchant not found"))
        ELSE IF DanglingReference(mer, its, merchantId, body)
        THEN OrdOutcome(mer, ord, oit,
                        Response("createOrder", 500, "Internal server error"))
        ELSE OrdOutcome(mer,
                        Append(ord, [familyId |-> mem[m].familyId,
                                     merchantId |-> merchantId,
                                     createdBy |-> userId,
                                     status |-> NewOrderStatus,
                                     completedAt |-> <<>>]),
                        oit \o OrderItemRows(Len(ord) + 1, body),
                        [Response("createOrder", 201, "Order created successfully")
                           EXCEPT !.itemId = Len(ord) + 1])
        : m \in MembershipsOf(mem, userId)}

\* The status update stamping completedAt on every call.
StatusUpdateAlwaysStamps(row, status, time) ==
  [row EXCEPT !.status = status, !.completedAt = <<time>>]

\* updateData = { status, updatedAt }, with completedAt = new Date() when the
\* new status is 'completed'
StatusUpdate(row, status, time) ==
  [row EXCEPT !.status = status,
              !.completedAt = IF status = "completed" THEN <<time>> ELSE @]

\* PATCH /orders/:orderId/status
UpdateOrderStatusOutcomes(mer, ord, oit, mem, userId, orderId, status, time) ==
  IF status \notin OrderStatuses
  THEN {OrdOutcome(mer, ord, oit, Response("updateOrderStatus", 400, "Validation error"))}
  ELSE IF MembershipsOf(mem, userId) = {}
  THEN {OrdOutcome(mer, ord, oit,
                   Response("updateOrderStatus", 404, "User not part of any family"))}
  ELSE {IF FindOwnOrder(ord, mem[m].familyId, orderId) = {}
        THEN OrdOutcome(mer, ord, oit,
                        ResponseOn("updateOrderStatus", orderId, 404, "Order not found"))
        ELSE OrdOutcome(mer, [ord EXCEPT ![orderId] = StatusUpdate(@, status, time)], oit,
                        [ResponseOn("updateOrderStatus", orderId, 200,
                                    "Order status updated successfully")
                           EXCEPT !.itemId = orderId])
        : m \in MembershipsOf(mem, userId)}

OrdAnswer(outcomes) ==
  /\ UNCHANGED <<users, families, members, items, notifications, reads, now, reqs,
                 clientVars>>
  /\ \E o \in outcomes :
       /\ Len(o.merchants) <= MaxMerchants
       /\ Len(o.orders) <= MaxOrders
       /\ Len(o.orderItems) <= MaxOrderItems
       /\ merchants' = o.merchants
       /\ orders' = o.orders
       /\ orderItems' = o.orderItems
       /\ last' = o.resp

AddMerchant(userId, name) ==
  OrdAnswer(AddMerchantOutcomes(merchants, orders, orderItems, members, userId, name))

UpdateMerchant(userId, merchantId, name) ==
  OrdAnswer(UpdateMerchantOutcomes(merchants, orders, orderItems, members, userId,
                                   merchantId, name))

DeleteMerchant(userId, merchantId) ==
  OrdAnswer(DeleteMerchantOutcomes(merchants, orders, orderItems, members, userId,
                                   merchantId))

CreateOrder(userId, merchantId, body) ==
  OrdAnswer(CreateOrderOutcomes(merchants, orders, orderItems, items, members, userId,
                                merchantId, body))

UpdateOrderStatus(userId, orderId, status) ==
  OrdAnswer(UpdateOrderStatusOutcomes(merchants, orders, orderItems, members, userId,
                                      orderId, status, now))

\* Request values.
MerchantIds == 1..(MaxMerchants + 1)
MerchantIdInputs == Opt(MerchantIds \cup {EmptyId})
MerchantNameInputs == {"Shop", ""}
OrderIds == 1..(MaxOrders + 1)
StatusInputs == OrderStatuses \cup {"shipped"}

\* Order item bodies: a snapshot of inventory item 1 under its name at the
\* time, a free item, and one malformed body per validated field.
MilkOfItem1 ==
  [name |-> Milk, quantity |-> 10, unit |-> <<>>, inventoryItemId |-> <<1>>]
FreeEggs ==
  [name |-> Eggs, quantity |-> 5, unit |-> <<"kg">>, inventoryItemId |-> <<>>]
OrderBodies ==
  {<<MilkOfItem1>>, <<FreeEggs>>, <<FreeEggs, MilkOfItem1>>,
   <<>>,
   <<FreeEggs, [FreeEggs EXCEPT !.name = <<>>]>>,
   <<[FreeEggs EXCEPT !.quantity = 0]>>,
   <<[FreeEggs EXCEPT !.inventoryItemId = <<MaxItems + 1>>]>>}

\* The inventory requests that touch the item an order item came from.
RenameRequests == {QuantityAndName(<<>>, <<Eggs>>)}

\* Users 1 and 2 are the owners of families 1 and 2; user 3 has no family.
TwoOwners ==
  <<[familyId |-> 1, userId |-> 1, role |-> "owner", isActive |-> TRUE],
    [familyId |-> 2, userId |-> 2, role |-> "owner", isActive |-> TRUE]>>

\* Family 1 has "Milk" in its inventory; there is no merchant and no order yet.
OrderInit ==
  /\ users = <<[phone |-> "p1"], [phone |-> "p2"], [phone |-> "p3"]>>
  /\ families = <<[inviteCode |-> "AAAAAA", ownerId |-> 1],
                  [inviteCode |-> "BBBBBB", ownerId |-> 2]>>
  /\ members = TwoOwners
  /\ items = CreateItem(<<>>, 1, Milk, 1, 1)
  /\ notifications = <<>>
  /\ reads = <<>>
  /\ now = 0
  /\ last = NoResponse
  /\ reqs = <<>>
  /\ merchants = <<>>
  /\ orders = <<>>
  /\ orderItems = <<>>
  /\ store = initialState
  /\ screen = NoScreen

AddMerchantStep == \E u \in UserIds, n \in MerchantNameInputs : AddMerchant(u, n)

UpdateMerchantStep ==
  \E u \in UserIds, id \in MerchantIds, n \in Opt({"Mart", ""}) :
    UpdateMerchant(u, id, n)

DeleteMerchantStep == \E u \in UserIds, id \in MerchantIds : DeleteMerchant(u, id)

CreateOrderStep ==
  \E u \in UserIds, m \in MerchantIdInputs, b \in OrderBodies : CreateOrder(u, m, b)

UpdateOrderStatusStep ==
  \E u \in UserIds, id \in OrderIds, s \in StatusInputs : UpdateOrderStatus(u, id, s)

RenameItemStep ==
  \E u \in UserIds, id \in DOMAIN items, r \in RenameRequests :
    UpdateItem(u, id, r)

RemoveItemStep == \E u \in UserIds, id \in DOMAIN items : DeleteItem(u, id)

OrderNext ==
  \/ AddMerchantStep
  \/ DeleteMerchantStep
  \/ CreateOrderStep
  \/ UpdateOrderStatusStep
  \/ RenameItemStep
  \/ RemoveItemStep

\* Orders against the merchants and the inventory of the families, one
\* request at a time.
OrderSpec == OrderInit /\ [][OrderNext]_vars

StatusNext == CreateOrderStep \/ UpdateOrderStatusStep \/ Tick

\* The life of an order as time passes.
StatusSpec == OrderInit /\ [][StatusNext]_vars

(***************************************************************************)
(* The client's notifications slice (notificationsSlice.ts): the reducers  *)
(* over `store`.  readBy is the array of { userId, readAt } of a           *)
(* notification as the client holds it.                                    *)
(***************************************************************************)
MaxStoreNotifications == 2
MaxUnreadCount == 2

ReadBy(userId, time) == [userId |-> userId, readAt |-> time]

ClientNotification(id, readBy) == [id |-> id, readBy |-> readBy]

\* notification.readBy.some(read => read.userId === userId)
HasRead(n, userId) == \E r \in DOMAIN n.readBy : n.readBy[r].userId = userId

\* state.notifications.find(n => n.id === notificationId): the first match
FindIndex(list, id) ==
  IF \E i \in DOMAIN list : list[i].id = id
  THEN CHOOSE i \in DOMAIN list :
         list[i].id = id /\ \A j \in 1..(i - 1) : list[j].id # id
  ELSE 0

\* state.notifications.filter(n => n.id !== notificationId)
RECURSIVE WithoutId(_, _)
WithoutId(list, id) ==
  IF list = <<>> THEN <<>>
  ELSE IF Head(list).id = id THEN WithoutId(Tail(list), id)
  ELSE <<Head(list)>> \o WithoutId(Tail(list), id)

\* Math.max(0, n - 1)
DecrementToZero(n) == IF n - 1 > 0 THEN n - 1 ELSE 0

\* addNotification: unshift the payload, unreadCount += 1
AddNotificationReducer(state, n) ==
  [state EXCEPT !.notifications = <<n>> \o @, !.unreadCount = @ + 1]

\* markAsReadLocally and markNotificationAsRead.fulfilled: push a read
\* receipt unless the user has one, and lower unreadCount (not below 0)
MarkAsRead(state, notificationId, userId, time) ==
  LET i == FindIndex(state.notifications, notificationId)
  IN IF i # 0 /\ ~HasRead(state.notifications[i], userId)
     THEN [state EXCEPT !.notifications[i].readBy = Append(@, ReadBy(userId, time)),
                        !.unreadCount = DecrementToZero(@)]
     ELSE state

\* The forEach body pushing a receipt on every notification.
MarkAllAsReadUnguarded(state, userId, time) ==
  [state EXCEPT
     !.notifications = [i \in DOMAIN @ |->
                          [@[i] EXCEPT !.readBy = Append(@, ReadBy(userId, time))]],
     !.unreadCount = 0]

\* markAllAsReadLocally and markAllNotificationsAsRead.fulfilled: push a read
\* receipt on every notification the user has none on; unreadCount = 0
MarkAllAsRead(state, userId, time) ==
  [state EXCEPT
     !.notifications = [i \in DOMAIN @ |->
                          IF HasRead(@[i], userId) THEN @[i]
                          ELSE [@[i] EXCEPT !.readBy = Append(@, ReadBy(userId, time))]],
     !.unreadCount = 0]

\* removeNotificationLocally and deleteNotification.fulfilled
RemoveNotification(state, notificationId) ==
  LET i == FindIndex(state.notifications, notificationId)
  IN [state EXCEPT
        !.notifications = WithoutId(@, notificationId),
        !.unreadCount = IF i # 0 /\ Len(state.notifications[i].readBy) = 0
                        THEN DecrementToZero(@) ELSE @]

\* What a .fulfilled case does besides its reducer body.
Settled(state) == [state EXCEPT !.isLoading = FALSE, !.error = <<>>]

StoreWithinBounds(state) ==
  /\ Len(state.notifications) <= MaxStoreNotifications
  /\ state.unreadCount <= MaxUnreadCount

Dispatch(state) ==
  /\ StoreWithinBounds(state)
  /\ store' = state
  /\ UNCHANGED <<users, families, members, items, notifications, reads, now, last,
                 reqs, orderVars, screen>>

AddNotification(n) == Dispatch(AddNotificationReducer(store, n))

MarkAsReadLocally(notificationId, userId) ==
  Dispatch(MarkAsRead(store, notificationId, userId, now))

MarkAllAsReadLocally(userId) == Dispatch(MarkAllAsRead(store, userId, now))

RemoveNotificationLocally(notificationId) ==
  Dispatch(RemoveNotification(store, notificationId))

ClearNotifications ==
  Dispatch([store EXCEPT !.notifications = <<>>, !.unreadCount = 0])

ClearError == Dispatch([store EXCEPT !.error = <<>>])

SetLoading(b) == Dispatch([store EXCEPT !.isLoading = b])

\* every .pending case
ThunkPending == Dispatch([store EXCEPT !.isLoading = TRUE, !.error = <<>>])

\* every .rejected case
ThunkRejected(message) ==
  Dispatch([store EXCEPT !.isLoading = FALSE, !.error = <<message>>])

\* fetchNotifications.fulfilled
FetchNotificationsFulfilled(payload) ==
  Dispatch(Settled([store EXCEPT !.notifications = payload.notifications,
                                 !.unreadCount = payload.unreadCount]))

\* markNotificationAsRead.fulfilled
MarkNotificationAsReadFulfilled(notificationId, userId) ==
  Dispatch(Settled(MarkAsRead(store, notificationId, userId, now)))

\* markAllNotificationsAsRead.fulfilled
MarkAllNotificationsAsReadFulfilled(userId) ==
  Dispatch(Settled(MarkAllAsRead(store, userId, now)))

\* deleteNotification.fulfilled
DeleteNotificationFulfilled(notificationId) ==
  Dispatch(Settled(RemoveNotification(store, notificationId)))

\* Payloads: what the server answered, and a notification pushed to the client.
ClientNotificationIds == 1..(MaxStoreNotifications + 1)
FetchPayloads ==
  {[notifications |-> <<>>, unreadCount |-> 0],
   [notifications |-> <<ClientNotification(1, <<ReadBy(1, 0)>>)>>, unreadCount |-> 0],
   [notifications |-> <<ClientNotification(2, <<ReadBy(2, 0)>>),
                        ClientNotification(1, <<>>)>>,
    unreadCount |-> 2]}
PushedNotifications == {ClientNotification(id, <<>>) : id \in ClientNotificationIds}

AddNotificationStep == \E n \in PushedNotifications : AddNotification(n)

MarkAsReadLocallyStep ==
  \E id \in ClientNotificationIds, u \in UserIds : MarkAsReadLocally(id, u)

MarkAllAsReadLocallyStep == \E u \in UserIds : MarkAllAsReadLocally(u)

RemoveNotificationLocallyStep ==
  \E id \in ClientNotificationIds : RemoveNotificationLocally(id)

SetLoadingStep == \E b \in BOOLEAN : SetLoading(b)

ThunkRejectedStep == ThunkRejected("Failed to fetch notifications")

FetchNotificationsFulfilledStep ==
  \E p \in FetchPayloads : FetchNotificationsFulfilled(p)

MarkNotificationAsReadFulfilledStep ==
  \E id \in ClientNotificationIds, u \in UserIds :
    MarkNotificationAsReadFulfilled(id, u)

MarkAllNotificationsAsReadFulfilledStep ==
  \E u \in UserIds : MarkAllNotificationsAsReadFulfilled(u)

DeleteNotificationFulfilledStep ==
  \E id \in ClientNotificationIds : DeleteNotificationFulfilled(id)

SliceNext ==
  \/ AddNotificationStep
  \/ MarkAsReadLocallyStep
  \/ MarkAllAsReadLocallyStep
  \/ RemoveNotificationLocallyStep
  \/ ClearNotifications
  \/ ClearError
  \/ SetLoadingStep
  \/ ThunkPending
  \/ ThunkRejectedStep
  \/ FetchNotificationsFulfilledStep
  \/ MarkNotificationAsReadFulfilledStep
  \/ MarkAllNotificationsAsReadFulfilledStep
  \/ DeleteNotificationFulfilledStep

\* The client of one of two registered users.
SliceSpec == DirInit /\ [][SliceNext]_vars

(***************************************************************************)
(* TenantSpec: the handlers that look a row up by its id, run by members   *)
(* of family 1, members of family 2 and a user without family, over        *)
(* tables in which family 2 has an item, a merchant, an order and a        *)
(* notification.                                                           *)
(***************************************************************************)
TenantInit ==
  /\ users = <<[phone |-> "p1"], [phone |-> "p2"], [phone |-> "p3"]>>
  /\ families = <<[inviteCode |-> "AAAAAA", ownerId |-> 1],
                  [inviteCode |-> "BBBBBB", ownerId |-> 2]>>
  /\ members = TwoOwners
  /\ items = CreateItem(<<>>, 2, Eggs, 1, 2)
  /\ merchants = <<[familyId |-> 2, name |-> "Shop", isActive |-> TRUE]>>
  /\ orders = <<[familyId |-> 2, merchantId |-> <<1>>, createdBy |-> 2,
                 status |-> NewOrderStatus, completedAt |-> <<>>]>>
  /\ orderItems = OrderItemRows(1, <<FreeEggs>>)
  /\ notifications = CreateNotification(<<>>, 2, {2})
  /\ reads = <<>>
  /\ now = 0
  /\ last = NoResponse
  /\ reqs = <<>>
  /\ store = initialState
  /\ screen = NoScreen

TenantNext ==
  \/ UpdateItemStep
  \/ DeleteItemStep
  \/ UpdateMerchantStep
  \/ DeleteMerchantStep
  \/ UpdateOrderStatusStep
  \/ MarkReadStep

TenantSpec == TenantInit /\ [][TenantNext]_vars

(***************************************************************************)
(* ScopeSpec: addItem requests interleaved with each other and with        *)
(* an addMember, over tables in which family 2 already holds a row each.      *)
(***************************************************************************)
\* The owner of a family adds the user who has no family yet.
OwnerAddsThirdStep ==
  \E f \in DOMAIN families : AddMember(families[f].ownerId, f, "p3", <<>>)

ScopeNext == ConcNext \/ OwnerAddsThirdStep

ScopeSpec == TenantInit /\ [][ScopeNext]_vars

(***************************************************************************)
(* PatchSpec: updateItem with bodies over all five fields, on two items of *)
(* family 1 that carry an expiry date, a category and notes.               *)
(***************************************************************************)
\* A body that defines every field.
FullBody ==
  [quantity |-> <<2>>, expiryDate |-> <<"2025-01-03">>, name |-> <<Eggs>>,
   category |-> <<"Pantry">>, notes |-> <<"open">>]

\* Every choice of fields out of FullBody, and one malformed body per
\* validated field that the other specifications do not cover.
PatchBodies ==
  {[f \in UpdateFields |-> IF f \in given THEN FullBody[f] ELSE <<>>] :
     given \in SUBSET UpdateFields}
    \cup {[QuantityAndName(<<>>, <<>>) EXCEPT !.expiryDate = <<"soon">>]}

\* "Milk" expires on day 1; "Eggs" already holds what FullBody asks for.
PatchInit ==
  /\ users = <<[phone |-> "p1"], [phone |-> "p2"], [phone |-> "p3"]>>
  /\ families = <<[inviteCode |-> "AAAAAA", ownerId |-> 1],
                  [inviteCode |-> "BBBBBB", ownerId |-> 2]>>
  /\ members = TwoOwners
  /\ items = LET created == CreateItem(CreateItem(<<>>, 1, Milk, 1, 1), 1, Eggs, 1, 1)
             IN [created EXCEPT
                   ![1] = ApplyUpdate(@, [QuantityAndName(<<>>, <<>>)
                                            EXCEPT !.expiryDate = <<"2025-01-01">>]),
                   ![2] = ApplyUpdate(@, FullBody)]
  /\ notifications = <<>>
  /\ reads = <<>>
  /\ now = 0
  /\ last = NoResponse
  /\ reqs = <<>>
  /\ merchants = <<>>
  /\ orders = <<>>
  /\ orderItems = <<>>
  /\ store = initialState
  /\ screen = NoScreen

PatchItemStep ==
  \E u \in UserIds, id \in ItemIds, b \in PatchBodies : UpdateItem(u, id, b)

PatchNext == PatchItemStep \/ RemoveItemStep

PatchSpec == PatchInit /\ [][PatchNext]_vars

(***************************************************************************)
(* ExpirySpec: the expiry helpers of the mobile screens (InventoryScreen,  *)
(* HomeScreen) over the items and the family the redux store holds.  Time  *)
(* is counted in half days; instant 0 is the midnight that starts today.   *)
(***************************************************************************)
\* 1000 * 60 * 60 * 24 milliseconds, in half days.
DayLen == 2

\* Math.ceil(a / b) for b > 0
CeilDiv(a, b) == -((-a) \div b)

\* InventoryScreen.getExpiryStatus, with `today` = new Date()
getExpiryStatus(item, today) ==
  IF ~Present(item.expiryDate) THEN "fresh"
  ELSE LET daysUntilExpiry == CeilDiv(item.expiryDate[1] - today, DayLen)
       IN IF daysUntilExpiry < 0 THEN "expired"
          ELSE IF daysUntilExpiry <= 2 THEN "expiring"
          ELSE "fresh"

\* HomeScreen.getExpiringItems, as the indices of the items it returns
getExpiringItems(its, today) ==
  LET twoDaysFromNow == today + 2 * DayLen
  IN {i \in DOMAIN its :
        Present(its[i].expiryDate) /\ its[i].expiryDate[1] <= twoDaysFromNow}

\* HomeScreen.getExpiredItems
getExpiredItems(its, today) ==
  {i \in DOMAIN its : Present(its[i].expiryDate) /\ its[i].expiryDate[1] < today}

ScreenUnchanged ==
  UNCHANGED <<users, families, members, items, notifications, reads, now, last,
              reqs, orderVars, store>>

\* inventorySlice, fetchInventory.fulfilled: state.items = action.payload.
\* What the screens computed from the former items is no longer shown.
FetchInventoryFulfilled(payload) ==
  /\ screen' = [screen EXCEPT !.items = payload,
                              !.status = <<>>, !.counted = FALSE,
                              !.expiring = {}, !.expired = {}]
  /\ ScreenUnchanged

\* familySlice, updateFamilySettings.fulfilled: state.currentFamily =
\* action.payload, of which the screens could read settings.expiryWarningDays.
UpdateFamilySettingsFulfilled(expiryWarningDays) ==
  /\ screen' = [screen EXCEPT !.expiryWarningDays = expiryWarningDays]
  /\ ScreenUnchanged

\* InventoryScreen renders: every item card takes its colour from
\* getExpiryStatus(item).
RenderInventoryScreen ==
  /\ screen' = [screen EXCEPT
                  !.status = [i \in DOMAIN screen.items |->
                                getExpiryStatus(screen.items[i], now)],
                  !.statusAt = now]
  /\ ScreenUnchanged

\* HomeScreen renders: expiringItems = getExpiringItems(), expiredItems =
\* getExpiredItems().
RenderHomeScreen ==
  /\ screen' = [screen EXCEPT
                  !.expiring = getExpiringItems(screen.items, now),
                  !.expired = getExpiredItems(screen.items, now),
                  !.counted = TRUE,
                  !.countedAt = now]
  /\ ScreenUnchanged

\* Expiry dates from yesterday morning to the evening three days from now,
\* and no expiry date.
ExpiryInstants == (-DayLen)..(4 * DayLen - 1)
ClientItem(expiryDate) == [expiryDate |-> expiryDate]
InventoryPayloads ==
  {<<ClientItem(e)>> : e \in Opt(ExpiryInstants)}
    \cup {<<ClientItem(<<-DayLen>>), ClientItem(<<DayLen>>)>>}
WarningDaysInputs == {2, 3}

FetchInventoryFulfilledStep == \E p \in InventoryPayloads : FetchInventoryFulfilled(p)

UpdateFamilySettingsFulfilledStep ==
  \E w \in WarningDaysInputs : UpdateFamilySettingsFulfilled(w)

ExpiryNext ==
  \/ FetchInventoryFulfilledStep
  \/ UpdateFamilySettingsFulfilledStep
  \/ RenderInventoryScreen
  \/ RenderHomeScreen
  \/ Tick

ExpirySpec == DirInit /\ [][ExpiryNext]_vars

(***************************************************************************)
(* SortSpec: the three places that sort items by expiry date -- the        *)
(* orderBy of listItems, filterAndSortItems of the inventory slice and     *)
(* filterAndSortItems of InventoryScreen -- applied to the same items.     *)
(***************************************************************************)
MaxSorted == 3

\* An item as the sort sees it: which item it is, and its expiry date.
SortItem(id, expiryDate) == [id |-> id, expiryDate |-> expiryDate]

\* The orders of the items of s.
OrdersOf(s) ==
  {[i \in DOMAIN s |-> s[f[i]]] :
     f \in {g \in [DOMAIN s -> DOMAIN s] : \A i, j \in DOMAIN s : g[i] = g[j] => i = j}}

\* Array.prototype.sort(compareFn): an order in which no item stands before
\* one that compareFn puts before it.  Items that compareFn does not tell
\* apart may come out in either order.
SortWith(s, compareFn) ==
  {p \in OrdersOf(s) :
     \A i, j \in DOMAIN p : i < j => compareFn[<<p[i], p[j]>>] <= 0}

\* The pairs (a, b) that a compareFn is called on when s is sorted.
PairsOf(s) == {s[i] : i \in DOMAIN s} \X {s[i] : i \in DOMAIN s}

\* InventoryScreen.filterAndSortItems, case 'expiryDate'
screenComparison(a, b) ==
  IF ~Present(a.expiryDate) /\ ~Present(b.expiryDate) THEN 0
  ELSE IF ~Present(a.expiryDate) THEN 1
  ELSE IF ~Present(b.expiryDate) THEN -1
  ELSE a.expiryDate[1] - b.expiryDate[1]

\* return sortOrder === 'asc' ? comparison : -comparison
screenFilterAndSortItems(its, sortOrder) ==
  LET compareFn == [ab \in PairsOf(its) |->
                      IF sortOrder = "asc" THEN screenComparison(ab[1], ab[2])
                      ELSE -screenComparison(ab[1], ab[2])]
  IN SortWith(its, compareFn)

\* inventorySlice.filterAndSortItems, case 'expiryDate':
\* a.expiryDate ? new Date(a.expiryDate).getTime() : 0
sliceValue(a) == IF Present(a.expiryDate) THEN a.expiryDate[1] ELSE 0

\* asc: aValue > bValue ? 1 : -1;  desc: aValue < bValue ? 1 : -1
filterAndSortItems(its, sortOrder) ==
  LET compareFn == [ab \in PairsOf(its) |->
        IF sortOrder = "asc"
        THEN (IF sliceValue(ab[1]) > sliceValue(ab[2]) THEN 1 ELSE -1)
        ELSE (IF sliceValue(ab[1]) < sliceValue(ab[2]) THEN 1 ELSE -1)]
  IN SortWith(its, compareFn)

\* listItems: orderBy[sortBy] = sortOrder, that is ORDER BY "expiryDate" ASC
\* or DESC with no NULLS option.  PostgreSQL then sorts a null as larger
\* than every value: last when ascending, first when descending.
orderByComparison(a, b) ==
  IF ~Present(a.expiryDate) /\ ~Present(b.expiryDate) THEN 0
  ELSE IF ~Present(a.expiryDate) THEN 1
  ELSE IF ~Present(b.expiryDate) THEN -1
  ELSE a.expiryDate[1] - b.expiryDate[1]

findManyOrderBy(its, sortOrder) ==
  LET compareFn == [ab \in PairsOf(its) |->
                      IF sortOrder = "asc" THEN orderByComparison(ab[1], ab[2])
                      ELSE orderByComparison(ab[2], ab[1])]
  IN SortWith(its, compareFn)

SortUnchanged ==
  UNCHANGED <<users, families, members, items, notifications, reads, now, last,
              reqs, orderVars, store>>

Sorted(by, sortOrder, outcomes) ==
  /\ SortUnchanged
  /\ \E r \in outcomes :
       screen' = [screen EXCEPT !.sortedBy = by, !.sortOrder = sortOrder,
                                !.sorted = r]

\* GET /inventory?sortBy=expiryDate&sortOrder=...
ListItemsByExpiryDate(sortOrder) ==
  Sorted("listItems", sortOrder, findManyOrderBy(screen.items, sortOrder))

\* inventorySlice, setSortOptions({ sortBy: 'expiryDate', sortOrder })
SetSortOptions(sortOrder) ==
  Sorted("inventorySlice", sortOrder, filterAndSortItems(screen.items, sortOrder))

\* InventoryScreen, the effect on [items, ..., sortBy, sortOrder]
InventoryScreenEffect(sortOrder) ==
  Sorted("InventoryScreen", sortOrder,
         screenFilterAndSortItems(screen.items, sortOrder))

SortOrders == {"asc", "desc"}

\* Expiry dates are instants after 1970: positive numbers.
SortDates == Opt({1, 3})

\* Up to MaxSorted items, each with or without an expiry date.
SortInputs ==
  UNION {{[i \in 1..n |-> SortItem(i, d[i])] : d \in [1..n -> SortDates]} :
           n \in 1..MaxSorted}

SortInit ==
  /\ users = <<[phone |-> "p1"], [phone |-> "p2"]>>
  /\ families = <<>>
  /\ members = <<>>
  /\ items = <<>>
  /\ notifications = <<>>
  /\ reads = <<>>
  /\ now = 0
  /\ last = NoResponse
  /\ reqs = <<>>
  /\ merchants = <<>>
  /\ orders = <<>>
  /\ orderItems = <<>>
  /\ store = initialState
  /\ \E its \in SortInputs : screen = [NoScreen EXCEPT !.items = its]

ListItemsByExpiryDateStep == \E o \in SortOrders : ListItemsByExpiryDate(o)

SetSortOptionsStep == \E o \in SortOrders : SetSortOptions(o)

InventoryScreenEffectStep == \E o \in SortOrders : InventoryScreenEffect(o)

SortNext ==
  \/ InventoryScreenEffectStep
  \/ SetSortOptionsStep
  \/ ListItemsByExpiryDateStep

SortSpec == SortInit /\ [][SortNext]_vars

(***************************************************************************)
(* DirConcSpec: createFamily and joinFamily requests handled concurrently, *)
(* each handler running up to its next await in one step.  User 2 owns     *)
(* family 1; user 1 has no family yet.                                     *)
(***************************************************************************)
\* A createFamily (arg: the name) or joinFamily (arg: the invite code) in
\* flight, with the family that joinFamily found.
NewFamilyRequest(op, userId, arg) ==
  [op |-> op, userId |-> userId, arg |-> arg, pc |-> "membership",
   familyId |-> 0, resp |-> NoResponse]

DirConcUnchanged ==
  UNCHANGED <<users, items, notifications, reads, now, orderVars, clientVars>>

\* The request arrives; the validators run before the first await.
FamilyReceive(op, userId, arg) ==
  /\ Len(reqs) < MaxRequests
  /\ DirConcUnchanged
  /\ UNCHANGED <<families, members>>
  /\ LET valid == IF op = "createFamily" THEN ValidCreateFamily(arg)
                  ELSE ValidJoinFamily(arg)
     IN IF ~valid
        THEN /\ reqs' = Append(reqs, Finish(NewFamilyRequest(op, userId, arg),
                                            Response(op, 400, "Validation error")))
             /\ last' = Response(op, 400, "Validation error")
        ELSE /\ reqs' = Append(reqs, NewFamilyRequest(op, userId, arg))
             /\ UNCHANGED last

\* await prisma.familyMember.findFirst({ where: { userId } })
FamilyFindMembership(k) ==
  /\ reqs[k].pc = "membership"
  /\ DirConcUnchanged
  /\ UNCHANGED <<families, members>>
  /\ IF AlreadyInAFamily(members, reqs[k].userId)
     THEN /\ reqs' = [reqs EXCEPT ![k] =
                        Finish(@, Response(reqs[k].op, 400,
                                           "User already belongs to a family"))]
          /\ last' = Response(reqs[k].op, 400, "User already belongs to a family")
     ELSE /\ reqs' = [reqs EXCEPT ![k].pc = IF reqs[k].op = "createFamily"
                                            THEN "create" ELSE "family"]
          /\ UNCHANGED last

\* await prisma.family.findUnique({ where: { inviteCode } })
JoinFindFamily(k) ==
  /\ reqs[k].pc = "family"
  /\ DirConcUnchanged
  /\ UNCHANGED <<families, members>>
  /\ IF FamilyByCode(families, reqs[k].arg) = {}
     THEN /\ reqs' = [reqs EXCEPT ![k] =
                        Finish(@, Response("joinFamily", 404, "Invalid invite code"))]
          /\ last' = Response("joinFamily", 404, "Invalid invite code")
     ELSE /\ \E f \in FamilyByCode(families, reqs[k].arg) :
               reqs' = [reqs EXCEPT ![k].pc = "join", ![k].familyId = f]
          /\ UNCHANGED last

\* await prisma.family.create({ data: { ..., members: { create: ... } } })
CreateFamilyWrite(k) ==
  /\ reqs[k].pc = "create"
  /\ DirConcUnchanged
  /\ \E code \in GeneratedCodes :
       IF FamilyByCode(families, code) # {}
       THEN /\ UNCHANGED <<families, members>>
            /\ reqs' = [reqs EXCEPT ![k] =
                          Finish(@, Response("createFamily", 500,
                                             "Internal server error"))]
            /\ last' = Response("createFamily", 500, "Internal server error")
       ELSE LET resp == ResponseOn("createFamily", Len(families) + 1, 201,
                                   "Family created successfully")
            IN /\ Len(families) < MaxFamilies
               /\ Len(members) < MaxMembers
               /\ families' = Append(families, [name |-> reqs[k].arg,
                                                inviteCode |-> code,
                                                ownerId |-> reqs[k].userId])
               /\ members' = Append(members, MemberRow(Len(families) + 1,
                                                       reqs[k].userId, "owner"))
               /\ reqs' = [reqs EXCEPT ![k] = Finish(@, resp)]
               /\ last' = resp

\* await prisma.familyMember.create({ data: { familyId, userId, role } }).
\* When the user is a member of that very family by now, the create adds a
\* second row or is refused by the database, as the schema's keys decide.
JoinFamilyWrite(k) ==
  /\ reqs[k].pc = "join"
  /\ DirConcUnchanged
  /\ UNCHANGED families
  /\ \/ LET resp == ResponseOn("joinFamily", reqs[k].familyId, 200,
                               "Successfully joined family")
        IN /\ Len(members) < MaxMembers
           /\ members' = Append(members, MemberRow(reqs[k].familyId,
                                                   reqs[k].userId, "member"))
           /\ reqs' = [reqs EXCEPT ![k] = Finish(@, resp)]
           /\ last' = resp
     \/ /\ MemberOfFamily(members, reqs[k].familyId, reqs[k].userId) # {}
        /\ UNCHANGED members
        /\ reqs' = [reqs EXCEPT ![k] =
                      Finish(@, Response("joinFamily", 500, "Internal server error"))]
        /\ last' = Response("joinFamily", 500, "Internal server error")

\* User 2 has created family 1; user 1 is registered and has no family.
DirConcInit ==
  /\ users = <<[phone |-> "p1"], [phone |-> "p2"]>>
  /\ families = <<[name |-> "Home", inviteCode |-> "AAAAAA", ownerId |-> 2]>>
  /\ members = <<MemberRow(1, 2, "owner")>>
  /\ items = <<>>
  /\ notifications = <<>>
  /\ reads = <<>>
  /\ now = 0
  /\ last = NoResponse
  /\ reqs = <<>>
  /\ merchants = <<>>
  /\ orders = <<>>
  /\ orderItems = <<>>
  /\ store = initialState
  /\ screen = NoScreen

CreateFamilyReceiveStep ==
  \E u \in UserIds, n \in FamilyNames : FamilyReceive("createFamily", u, n)

JoinFamilyReceiveStep ==
  \E u \in UserIds, c \in JoinCodes : FamilyReceive("joinFamily", u, c)

FamilyFindMembershipStep == \E k \in DOMAIN reqs : FamilyFindMembership(k)

JoinFindFamilyStep == \E k \in DOMAIN reqs : JoinFindFamily(k)

CreateFamilyWriteStep == \E k \in DOMAIN reqs : CreateFamilyWrite(k)

JoinFamilyWriteStep == \E k \in DOMAIN reqs : JoinFamilyWrite(k)

DirConcNext ==
  \/ CreateFamilyReceiveStep
  \/ JoinFamilyReceiveStep
  \/ FamilyFindMembershipStep
  \/ JoinFindFamilyStep
  \/ CreateFamilyWriteStep
  \/ JoinFamilyWriteStep

DirConcSpec == DirConcInit /\ [][DirConcNext]_vars

(***************************************************************************)
(* MergeSpec: addItem with bodies that carry a category, an expiry date    *)
(* and notes next to name and quantity, sent by the two members of one     *)
(* family; the requests handled so far are kept in `reqs`.                 *)
(***************************************************************************)
\* addItem validators on the fields of the body that the rows here hold
ValidAddBody(body) ==
  /\ ValidAddItem(body.name, body.quantity)
  /\ Present(body.expiryDate) => body.expiryDate[1] \in IsoDates

\* inventoryItem.create({ data: { familyId, name, quantity, ..., category,
\* expiryDate: expiryDate ? new Date(expiryDate) : null, notes, addedBy } })
CreateItemFrom(its, familyId, body, userId) ==
  Append(its, [familyId |-> familyId, name |-> body.name,
               quantity |-> body.quantity,
               expiryDate |-> IF Present(body.expiryDate)
                              THEN <<ParseDate(body.expiryDate[1])>> ELSE <<>>,
               category |-> body.category, notes |-> body.notes,
               addedBy |-> userId, isActive |-> TRUE])

\* The merge writing every field of the body over the existing row.
MergeRowSpreadsBody(its, id, body) ==
  [its EXCEPT ![id] = [CreateItemFrom(<<>>, @.familyId, body, @.addedBy)[1]
                         EXCEPT !.quantity = its[id].quantity + body.quantity]]

\* inventoryItem.update({ where: { id: existingItem.id },
\*   data: { quantity: existingItem.quantity + Number(quantity), updatedAt } })
MergeRow(its, id, body) == MergeQuantity(its, id, its[id].quantity, body.quantity)

\* POST /inventory with the whole body
AddItemBodyOutcomes(its, mem, userId, body) ==
  IF ~ValidAddBody(body)
  THEN {Outcome(its, Response("addItem", 400, "Validation error"))}
  ELSE IF MembershipsOf(mem, userId) = {}
  THEN {Outcome(its, Response("addItem", 404, "User not part of any family"))}
  ELSE UNION {
    LET fam == mem[m].familyId
        dups == FindDuplicates(its, fam, body.name)
    IN IF dups # {}
       THEN {Outcome(MergeRow(its, e, body),
                     [Response("addItem", 201, "Item quantity updated")
                        EXCEPT !.itemId = e, !.isDuplicate = TRUE,
                               !.previousQuantity = its[e].quantity]) : e \in dups}
       ELSE {Outcome(CreateItemFrom(its, fam, body, userId),
                     [Response("addItem", 201, "Item added successfully")
                        EXCEPT !.itemId = Len(its) + 1])}
    : m \in MembershipsOf(mem, userId)}

AddItemBody(userId, body) ==
  /\ Len(reqs) < MaxRequests
  /\ ConcUnchanged
  /\ \E o \in AddItemBodyOutcomes(items, members, userId, body) :
       /\ WithinBounds(o.items)
       /\ items' = o.items
       /\ last' = o.resp
       /\ reqs' = Append(reqs, [userId |-> userId, body |-> body, pc |-> "done",
                                resp |-> o.resp])

\* Well-formed bodies, and one malformed body per validated field.
AddBodies ==
  {[name |-> n, quantity |-> 1, category |-> c, expiryDate |-> d, notes |-> t] :
     n \in {Milk, milk}, c \in {"Dairy", "Pantry"},
     d \in Opt({"2025-01-03"}), t \in Opt({"open"})}
  \cup {[name |-> Milk, quantity |-> -1, category |-> "Dairy",
         expiryDate |-> <<>>, notes |-> <<>>],
        [name |-> Milk, quantity |-> 1, category |-> "Dairy",
         expiryDate |-> <<"soon">>, notes |-> <<>>]}

\* Users 1 and 2 are the members of family 1, which holds "Eggs".
MergeInit ==
  /\ users = <<[phone |-> "p1"], [phone |-> "p2"]>>
  /\ families = <<[inviteCode |-> "AAAAAA", ownerId |-> 1]>>
  /\ members = <<MemberRow(1, 1, "owner"), MemberRow(1, 2, "member")>>
  /\ items = CreateItem(<<>>, 1, Eggs, 1, 1)
  /\ notifications = <<>>
  /\ reads = <<>>
  /\ now = 0
  /\ last = NoResponse
  /\ reqs = <<>>
  /\ merchants = <<>>
  /\ orders = <<>>
  /\ orderItems = <<>>
  /\ store = initialState
  /\ screen = NoScreen

AddItemBodyStep == \E u \in UserIds, b \in AddBodies : AddItemBody(u, b)

MergeNext == AddItemBodyStep

MergeSpec == MergeInit /\ [][MergeNext]_vars

(***************************************************************************)
(* LifeSpec: updateItem and deleteItem split at their awaits and           *)
(* interleaved with each other and with addItem, over the tables of        *)
(* TenantInit (family 2 holds "Eggs").                                     *)
(***************************************************************************)
\* An updateItem (with its body) or deleteItem in flight.
NewItemRequest(op, userId, itemId, body) ==
  [op |-> op, userId |-> userId, itemId |-> itemId, body |-> body,
   pc |-> "caller", familyId |-> 0, resp |-> NoResponse]

\* The request arrives; the validators of updateItem run before the first
\* await (deleteItem has none).
ItemReceive(op, userId, itemId, body) ==
  /\ Len(reqs) < MaxRequests
  /\ ConcUnchanged
  /\ UNCHANGED items
  /\ IF op = "updateItem" /\ ~ValidUpdateItem(body)
     THEN /\ reqs' = Append(reqs, Finish(NewItemRequest(op, userId, itemId, body),
                                         Response(op, 400, "Validation error")))
          /\ last' = Response(op, 400, "Validation error")
     ELSE /\ reqs' = Append(reqs, NewItemRequest(op, userId, itemId, body))
          /\ UNCHANGED last

\* await prisma.familyMember.findFirst({ where: { userId } })
ItemFindMembership(k) ==
  /\ reqs[k].pc = "caller"
  /\ ConcUnchanged
  /\ UNCHANGED items
  /\ IF MembershipsOf(members, reqs[k].userId) = {}
     THEN /\ reqs' = [reqs EXCEPT ![k] =
                        Finish(@, Response(reqs[k].op, 404,
                                           "User not part of any family"))]
          /\ last' = Response(reqs[k].op, 404, "User not part of any family")
     ELSE /\ \E m \in MembershipsOf(members, reqs[k].userId) :
               reqs' = [reqs EXCEPT ![k].pc = "item",
                                    ![k].familyId = members[m].familyId]
          /\ UNCHANGED last

\* await prisma.inventoryItem.findFirst({ id, familyId, isActive: true })
ItemFindActive(k) ==
  /\ reqs[k].pc = "item"
  /\ ConcUnchanged
  /\ UNCHANGED items
  /\ IF FindOwnActive(items, reqs[k].familyId, reqs[k].itemId) = {}
     THEN /\ reqs' = [reqs EXCEPT ![k] =
                        Finish(@, ResponseOn(reqs[k].op, reqs[k].itemId, 404,
                                             "Item not found"))]
          /\ last' = ResponseOn(reqs[k].op, reqs[k].itemId, 404, "Item not found")
     ELSE /\ reqs' = [reqs EXCEPT ![k].pc = "write"]
          /\ UNCHANGED last

\* await prisma.inventoryItem.update({ where: { id: itemId }, data: { ...updateData,
\* updatedAt } }): the row is addressed by its id alone.
UpdateItemWrite(k) ==
  /\ reqs[k].pc = "write"
  /\ reqs[k].op = "updateItem"
  /\ ConcUnchanged
  /\ LET id == reqs[k].itemId
         its == [items EXCEPT ![id] = ApplyUpdate(@, reqs[k].body)]
         resp == [ResponseOn("updateItem", id, 200, "Item updated successfully")
                    EXCEPT !.itemId = id, !.updated = UpdatedKeys(reqs[k].body)]
     IN /\ WithinBounds(its)
        /\ items' = its
        /\ reqs' = [reqs EXCEPT ![k] = Finish(@, resp)]
        /\ last' = resp

\* await prisma.inventoryItem.update({ where: { id: itemId }, data: { isActive:
\* false, updatedAt } })
DeleteItemWrite(k) ==
  /\ reqs[k].pc = "write"
  /\ reqs[k].op = "deleteItem"
  /\ ConcUnchanged
  /\ LET id == reqs[k].itemId
         resp == ResponseOn("deleteItem", id, 200, "Item deleted successfully")
     IN /\ items' = SoftDelete(items, id)
        /\ reqs' = [reqs EXCEPT ![k] = Finish(@, resp)]
        /\ last' = resp

\* The bodies of the race: a new quantity, a new name, a malformed one.
LifeBodies ==
  {QuantityAndName(<<2>>, <<>>), QuantityAndName(<<>>, <<Milk>>),
   QuantityAndName(<<-1>>, <<>>)}

UpdateItemReceiveStep ==
  \E u \in UserIds, id \in ItemIds, b \in LifeBodies :
    ItemReceive("updateItem", u, id, b)

DeleteItemReceiveStep ==
  \E u \in UserIds, id \in ItemIds :
    ItemReceive("deleteItem", u, id, QuantityAndName(<<>>, <<>>))

EggsReceiveStep ==
  \E u \in UserIds, r \in {a \in AddRequests : a.name \in {Eggs, <<>>}} :
    AddItemReceive(u, r.name, r.quantity)

ItemFindMembershipStep == \E k \in DOMAIN reqs : ItemFindMembership(k)

ItemFindActiveStep == \E k \in DOMAIN reqs : ItemFindActive(k)

UpdateItemWriteStep == \E k \in DOMAIN reqs : UpdateItemWrite(k)

DeleteItemWriteStep == \E k \in DOMAIN reqs : DeleteItemWrite(k)

LifeNext ==
  \/ UpdateItemReceiveStep
  \/ DeleteItemReceiveStep
  \/ EggsReceiveStep
  \/ ItemFindMembershipStep
  \/ ItemFindActiveStep
  \/ UpdateItemWriteStep
  \/ DeleteItemWriteStep
  \/ AddItemFindMembershipStep
  \/ AddItemFindDuplicateStep
  \/ AddItemMergeStep
  \/ AddItemCreateStep

LifeSpec == TenantInit /\ [][LifeNext]_vars

(***************************************************************************)
(* Properties of the inventory handlers (Spec).  A property of a handler   *)
(* is stated over its outcomes in every reachable state of the tables.     *)
(***************************************************************************)
FamiliesOf(userId) == {members[m].familyId : m \in MembershipsOf(members, userId)}

\* C1: a valid addItem by a family member merges into an active row of the
\* same name (ignoring case) when one exists -- no new row, that row's quantity
\* becomes old + incoming, isDuplicate = TRUE, previousQuantity = old -- and
\* otherwise creates exactly one active row with the incoming quantity and
\* creator = caller, isDuplicate = FALSE.
C1_AddItemMergesOrCreates ==
  \A u \in UserIds, r \in AddRequests :
    (ValidAddItem(r.name, r.quantity) /\ FamiliesOf(u) # {}) =>
      \A o \in AddItemOutcomes(items, members, u, r.name, r.quantity) :
        \E fam \in FamiliesOf(u) :
          IF \E i \in DOMAIN items :
               /\ items[i].familyId = fam /\ items[i].isActive
               /\ Lower(items[i].name) = Lower(r.name)
          THEN \E e \in DOMAIN items :
                 /\ items[e].familyId = fam /\ items[e].isActive
                 /\ Lower(items[e].name) = Lower(r.name)
                 /\ o.items = [items EXCEPT ![e].quantity = items[e].quantity + r.quantity]
                 /\ o.resp.status = 201 /\ o.resp.isDuplicate
                 /\ o.resp.itemId = e
                 /\ o.resp.previousQuantity = items[e].quantity
          ELSE /\ Len(o.items) = Len(items) + 1
               /\ SubSeq(o.items, 1, Len(items)) = items
               /\ LET row == o.items[Len(items) + 1]
                  IN /\ row.familyId = fam /\ row.name = r.name
                     /\ row.quantity = r.quantity /\ row.addedBy = u
                     /\ row.isActive
               /\ o.resp.status = 201 /\ ~o.resp.isDuplicate
               /\ o.resp.itemId = Len(items) + 1

\* addItem has merged 1 into a row that held 1, and the row's name differs
\* from another spelling only by case.
C1_Witness ==
  /\ last.op = "addItem" /\ last.isDuplicate
  /\ last.previousQuantity = 1
  /\ items[last.itemId].quantity = 2
  /\ Len(items) = 1

\* C2: no family has two active items whose names are equal ignoring case.
C2_ActiveNamesUnique ==
  \A i, j \in DOMAIN items :
    (/\ i # j
     /\ items[i].isActive /\ items[j].isActive
     /\ items[i].familyId = items[j].familyId)
      => Lower(items[i].name) # Lower(items[j].name)

\* C4: addItem changes or creates rows of the caller's own family only; every
\* row of another family stays as it was, whatever its name.
C4_AddItemStaysInFamily ==
  \A u \in UserIds, r \in AddRequests :
    \A o \in AddItemOutcomes(items, members, u, r.name, r.quantity) :
      /\ Len(o.items) >= Len(items)
      /\ \A i \in DOMAIN o.items :
           (i \notin DOMAIN items \/ o.items[i] # items[i])
             => o.items[i].familyId \in FamiliesOf(u)

\* The same name is held by one active row in each of two families, the
\* second one just created by addItem with a quantity of its own.
C4_Witness ==
  /\ last.op = "addItem" /\ last.status = 201 /\ ~last.isDuplicate
  /\ \E i \in DOMAIN items :
       /\ i # last.itemId
       /\ items[i].isActive
       /\ items[i].familyId # items[last.itemId].familyId
       /\ Lower(items[i].name) = Lower(items[last.itemId].name)
       /\ items[i].quantity # items[last.itemId].quantity

\* C10: a successful deleteItem leaves the row in place with isActive = FALSE;
\* no handler changes an inactive row, no listItems result holds one, and
\* updateItem and deleteItem on its id answer 'Item not found' and change no
\* row, which is the answer the same request gets on an id that never existed.
C10_NotFoundLikeGhost(outs, ghostOuts, its) ==
  \A o \in outs :
    /\ o.items = its
    /\ o.resp.status = 404 /\ o.resp.message = "Item not found"
    /\ \E g \in ghostOuts :
         g.items = its /\ [g.resp EXCEPT !.target = o.resp.target] = o.resp

C10_SoftDeletedIsGone ==
  /\ [](last.op = "listItems" => \A i \in last.listed : items[i].isActive)
  /\ [](\A u \in UserIds, id \in DOMAIN items :
          \A o \in DeleteItemOutcomes(items, members, u, id) :
            o.resp.status = 200 =>
              o.items = [items EXCEPT ![id].isActive = FALSE])
  /\ [](\A u \in UserIds, id \in DOMAIN items :
          (~items[id].isActive /\ FamiliesOf(u) # {}) =>
            /\ C10_NotFoundLikeGhost(
                 DeleteItemOutcomes(items, members, u, id),
                 DeleteItemOutcomes(items, members, u, Len(items) + 1), items)
            /\ \A r \in UpdateRequests :
                 ValidUpdateItem(r) =>
                   C10_NotFoundLikeGhost(
                     UpdateItemOutcomes(items, members, u, id, r),
                     UpdateItemOutcomes(items, members, u, Len(items) + 1, r), items))
  /\ [][\A i \in DOMAIN items : ~items[i].isActive => items'[i] = items[i]]_vars

\* updateItem on the id of a soft-deleted row has been answered.
C10_Witness ==
  /\ last.op = "updateItem" /\ last.status = 404
  /\ last.message = "Item not found"
  /\ last.target \in DOMAIN items
  /\ ~items[last.target].isActive
  /\ \E u \in UserIds : items[last.target].familyId \in FamiliesOf(u)

(***************************************************************************)
(* Properties of the Family Directory handlers (DirSpec).                  *)
(***************************************************************************)
C5_Refused(outs, wellFormed) ==
  \A o \in outs :
    /\ o.resp.status = 400
    /\ wellFormed => o.resp.message = "User already belongs to a family"
    /\ o.users = users /\ o.families = families /\ o.members = members

\* C5: createFamily and joinFamily by a user who has a membership are always
\* answered 400 -- 'User already belongs to a family' for every well-formed
\* body, whether the invite code names a family or not -- and leave the
\* Family and FamilyMember tables as they were.
C5_SecondFamilyRefused ==
  \A u \in UserIds :
    MembershipsOf(members, u) # {} =>
      /\ \A n \in FamilyNames :
           C5_Refused(CreateFamilyOutcomes(users, families, members, u, n),
                      ValidCreateFamily(n))
      /\ \A c \in JoinCodes :
           C5_Refused(JoinFamilyOutcomes(users, families, members, u, c),
                      ValidJoinFamily(c))

\* joinFamily has been refused to a member while two families exist.
C5_Witness ==
  /\ last.op = "joinFamily" /\ last.status = 400
  /\ last.message = "User already belongs to a family"
  /\ Len(families) = 2

\* C6: each user has at most one FamilyMember row across all families.
C6_AtMostOneFamily ==
  \A u \in UserIds : Cardinality(MembershipsOf(members, u)) <= 1

\* C7: addMember answers 201 only to an owner or admin of the family in the
\* path; to any other caller it answers 403 (400 when the body is malformed)
\* and creates neither a User nor a FamilyMember row.
C7_AddMemberNeedsOwnerOrAdmin ==
  \A u \in UserIds, f \in FamilyIds, p \in PhoneInputs, r \in RoleInputs :
    \A o \in AddMemberOutcomes(users, families, members, u, f, p, r) :
      (\A i \in DOMAIN members :
         ~(/\ members[i].familyId = f /\ members[i].userId = u
           /\ members[i].role \in {"owner", "admin"})) =>
        /\ o.users = users /\ o.members = members /\ o.families = families
        /\ o.resp.status # 201
        /\ ValidAddMember(p, r) =>
             o.resp.status = 403 /\ o.resp.message = "Insufficient permissions"

\* addMember on an existing family has been refused while that family has a
\* plain member.
C7_Witness ==
  /\ last.op = "addMember" /\ last.status = 403
  /\ last.target \in DOMAIN families
  /\ \E i \in DOMAIN members :
       members[i].familyId = last.target /\ members[i].role = "member"

(***************************************************************************)
(* Properties of the notification handlers (NoteSpec).                     *)
(***************************************************************************)
ReadRows(rds, notificationId, userId) ==
  {r \in DOMAIN rds : rds[r].notificationId = notificationId /\ rds[r].userId = userId}

\* C8: no (notificationId, userId) pair has two NotificationRead rows; a
\* markRead answered 200 leaves exactly one row for its pair, and on a pair
\* that already has its row markRead is answered 200 and adds no row.
C8_MarkReadIdempotent ==
  /\ \A n \in NotificationIds, u \in UserIds :
       Cardinality(ReadRows(reads, n, u)) <= 1
  /\ \A u \in UserIds, n \in NotificationIds :
       \A o \in MarkReadOutcomes(notifications, reads, members, u, n, now) :
         /\ o.resp.status = 200 => Cardinality(ReadRows(o.reads, n, u)) = 1
         /\ ReadRows(reads, n, u) # {} =>
              /\ o.resp.status = 200
              /\ Len(o.reads) = Len(reads)
              /\ ReadRows(o.reads, n, u) = ReadRows(reads, n, u)

\* A pair was marked read again after a later pair got its row: the first
\* row carries the later readAt and is still the only row of its pair.
C8_Witness ==
  /\ last.op = "markRead" /\ last.status = 200
  /\ Len(reads) = 2
  /\ reads[1].readAt > reads[2].readAt
  /\ reads[1].notificationId = last.target

\* The unread count as the claim words it: the family's notifications less
\* those with a read row of the user.
C9_Unread(nots, rds, familyId, userId) ==
  Cardinality({n \in DOMAIN nots : nots[n].familyId = familyId})
    - Cardinality({n \in DOMAIN nots :
                     nots[n].familyId = familyId /\ ReadRows(rds, n, userId) # {}})

\* C9: the unreadCount answered is the number of the family's notifications
\* with no read row of the user; markRead by a user on a notification that
\* user had not read lowers that user's count by exactly 1, on one already
\* read leaves it unchanged, and never changes another user's count.
C9_UnreadCountTracksReads ==
  /\ \A u \in UserIds :
       \A o \in GetNotificationsOutcomes(notifications, reads, members, u) :
         o.resp.status = 200 =>
           \E fam \in FamiliesOf(u) :
             o.resp.unreadCount = C9_Unread(notifications, reads, fam, u)
  /\ \A u \in UserIds, n \in NotificationIds :
       \A o \in MarkReadOutcomes(notifications, reads, members, u, n, now) :
         /\ \A v \in UserIds \ {u}, fam \in DOMAIN families :
              UnreadCount(o.notifications, o.reads, fam, v)
                = UnreadCount(notifications, reads, fam, v)
         /\ \A fam \in DOMAIN families :
              UnreadCount(o.notifications, o.reads, fam, u)
                = UnreadCount(notifications, reads, fam, u)
                    - (IF /\ o.resp.status = 200
                          /\ notifications[n].familyId = fam
                          /\ ReadRows(reads, n, u) = {}
                       THEN 1 ELSE 0)

\* After a markRead a user is told 0 unread while another member of the
\* family has not read the notification.
C9_Witness ==
  /\ last.op = "getNotifications" /\ last.status = 200
  /\ last.unreadCount = 0
  /\ last.listed # {}
  /\ \E n \in last.listed, v \in UserIds :
       /\ notifications[n].familyId \in FamiliesOf(v)
       /\ ReadRows(reads, n, v) = {}
       /\ Len(reads) = 1

(***************************************************************************)
(* Properties of concurrent requests (ConcSpec).                           *)
(***************************************************************************)
AllAnswered == \A k \in DOMAIN reqs : reqs[k].pc = "done"

\* C3: two concurrent addItem requests of one family for the same name
\* (ignoring case), with no active row of that name beforehand, leave the
\* family with exactly one active row of that name, holding the sum of the
\* two incoming quantities.
C3_ConcurrentAddsLeaveOneRow ==
  (/\ Len(reqs) = 2 /\ AllAnswered
   /\ reqs[1].resp.status = 201 /\ reqs[2].resp.status = 201
   /\ reqs[1].familyId = reqs[2].familyId
   /\ Lower(reqs[1].name) = Lower(reqs[2].name))
  => LET rows == {i \in DOMAIN items :
                    /\ items[i].familyId = reqs[1].familyId
                    /\ items[i].isActive
                    /\ Lower(items[i].name) = Lower(reqs[1].name)}
     IN /\ Cardinality(rows) = 1
        /\ \A i \in rows : items[i].quantity = reqs[1].quantity + reqs[2].quantity

(***************************************************************************)
(* Properties of the order handlers (OrderSpec, StatusSpec).               *)
(***************************************************************************)
ItemsOfOrder(oit, orderId) == {i \in DOMAIN oit : oit[i].orderId = orderId}

OrderTablesUnchanged(o) ==
  /\ o.merchants = merchants
  /\ o.orders = orders
  /\ o.orderItems = orderItems

\* C11: a createOrder whose items array is empty, or holds an item with an
\* empty name or a quantity not greater than 0, is answered 400 Validation
\* error and writes nothing; every Order row has at least one OrderItem row.
C11_NoOrderWithoutItems ==
  /\ \A o \in DOMAIN orders : ItemsOfOrder(orderItems, o) # {}
  /\ \A u \in UserIds, m \in MerchantIdInputs, b \in OrderBodies :
       (Len(b) = 0 \/ \E i \in DOMAIN b : Len(b[i].name) = 0 \/ b[i].quantity <= 0) =>
         \A o \in CreateOrderOutcomes(merchants, orders, orderItems, items, members,
                                      u, m, b) :
           /\ o.resp.status = 400
           /\ o.resp.message = "Validation error"
           /\ OrderTablesUnchanged(o)

\* A createOrder was refused by the validators while an order with its two
\* items is on record.
C11_Witness ==
  /\ last.op = "createOrder" /\ last.status = 400
  /\ Len(orders) = 1
  /\ Cardinality(ItemsOfOrder(orderItems, 1)) = 2

\* C12: a well-formed createOrder by a family member with a merchantId that is
\* not the id of an active merchant of the caller's family is answered 404 and
\* writes no Order or OrderItem row; an order created with a merchantId
\* references an active merchant of its own family.
C12_UnknownMerchantIsNotFound ==
  \A u \in UserIds, m \in MerchantIdInputs, b \in OrderBodies :
    (ValidCreateOrder(b) /\ Present(m) /\ FamiliesOf(u) # {}) =>
      \A o \in CreateOrderOutcomes(merchants, orders, orderItems, items, members,
                                   u, m, b) :
        /\ (\A fam \in FamiliesOf(u) :
              ~(/\ m[1] \in DOMAIN merchants
                /\ merchants[m[1]].familyId = fam
                /\ merchants[m[1]].isActive))
             => /\ o.resp.status = 404
                /\ OrderTablesUnchanged(o)
        /\ o.resp.status = 201 =>
             /\ m[1] \in DOMAIN merchants
             /\ merchants[m[1]].isActive
             /\ merchants[m[1]].familyId = o.orders[o.resp.itemId].familyId

\* C13: the OrderItem rows createOrder writes carry the name, quantity and
\* unit of the request (unit 'pieces' when none is given), and no step --
\* a rename or delete of the originating inventory item, a status update, a
\* later order -- changes an existing OrderItem row.
C13_OrderItemsAreSnapshots ==
  /\ [](\A u \in UserIds, m \in MerchantIdInputs, b \in OrderBodies :
          \A o \in CreateOrderOutcomes(merchants, orders, orderItems, items, members,
                                       u, m, b) :
            o.resp.status = 201 =>
              /\ Len(o.orderItems) = Len(orderItems) + Len(b)
              /\ \A i \in DOMAIN b :
                   LET row == o.orderItems[Len(orderItems) + i]
                   IN /\ row.orderId = o.resp.itemId
                      /\ row.name = b[i].name
                      /\ row.quantity = b[i].quantity
                      /\ row.unit = (IF b[i].unit = <<>> THEN "pieces" ELSE b[i].unit[1]))
  /\ [][\A i \in DOMAIN orderItems :
          i \in DOMAIN orderItems' /\ orderItems'[i] = orderItems[i]]_vars

\* The order item taken from inventory item 1 still reads "Milk" after that
\* item was renamed and deleted and the order was completed.
C13_Witness ==
  /\ items[1].name = Eggs /\ ~items[1].isActive
  /\ \E i \in DOMAIN orderItems :
       /\ orderItems[i].inventoryItemId = <<1>>
       /\ orderItems[i].name = Milk
       /\ orders[orderItems[i].orderId].status = "completed"

\* C14: an updateOrderStatus to 'completed' sets completedAt to the time of
\* the call, one to any other status leaves completedAt as it was; a new order
\* has no completedAt, nothing but a completing updateOrderStatus changes it,
\* and every order whose status is completed has one.
C14_CompletedAtOnlyOnCompletion ==
  /\ [](\A o \in DOMAIN orders :
          orders[o].status = "completed" => Present(orders[o].completedAt))
  /\ [](\A u \in UserIds, id \in OrderIds, s \in StatusInputs :
          \A o \in UpdateOrderStatusOutcomes(merchants, orders, orderItems, members,
                                             u, id, s, now) :
            o.resp.status = 200 =>
              /\ o.orders[id].status = s
              /\ o.orders[id].completedAt =
                   (IF s = "completed" THEN <<now>> ELSE orders[id].completedAt))
  /\ [][\A o \in DOMAIN orders' :
          IF o \notin DOMAIN orders
          THEN orders'[o].completedAt = <<>>
          ELSE orders'[o].completedAt # orders[o].completedAt =>
                 /\ last'.op = "updateOrderStatus" /\ last'.target = o
                 /\ orders'[o].status = "completed"
                 /\ orders'[o].completedAt = <<now>>]_vars

\* An order completed at time 1 and moved on to another status keeps the
\* completedAt of its completion.
C14_Witness ==
  /\ last.op = "updateOrderStatus" /\ last.status = 200
  /\ \E o \in DOMAIN orders :
       /\ orders[o].status = "cancelled"
       /\ orders[o].completedAt = <<1>>

\* C15: a well-formed send by a family member creates exactly one
\* Notification row, in the caller's family; its recipients are the users
\* with an active FamilyMember row in that family when recipients is omitted
\* or empty, and the given recipients otherwise.
C15_SendAddressesRecipients ==
  \A u \in UserIds, t \in Titles, r \in RecipientInputs :
    (ValidSend(t) /\ FamiliesOf(u) # {}) =>
      \A o \in SendOutcomes(notifications, reads, members, u, t, r) :
        /\ o.resp.status = 201
        /\ o.reads = reads
        /\ Len(o.notifications) = Len(notifications) + 1
        /\ SubSeq(o.notifications, 1, Len(notifications)) = notifications
        /\ \E fam \in FamiliesOf(u) :
             LET new == o.notifications[Len(notifications) + 1]
             IN /\ new.familyId = fam
                /\ new.recipients =
                     (IF r = <<>> \/ r[1] = {}
                      THEN {v \in UserIds :
                              \E m \in DOMAIN members :
                                /\ members[m].userId = v
                                /\ members[m].familyId = fam
                                /\ members[m].isActive}
                      ELSE r[1])

\* A send without recipients went to the two members of family 1.
C15_Witness ==
  /\ last.op = "send" /\ last.status = 201
  /\ Len(notifications) = 1
  /\ notifications[1].familyId = 1
  /\ notifications[1].recipients = {1, 2}

(***************************************************************************)
(* Properties of the client's notifications slice (SliceSpec).             *)
(***************************************************************************)
ReceiptsOf(n, userId) == {r \in DOMAIN n.readBy : n.readBy[r].userId = userId}

\* The receipts of a notification that are not the user's, in their order.
ReceiptsOfOthers(n, userId) ==
  SelectSeq(n.readBy, LAMBDA r : r.userId # userId)

ClientUnread(state, userId) ==
  Cardinality({i \in DOMAIN state.notifications :
                 ReceiptsOf(state.notifications[i], userId) = {}})

\* C16: after markAllRead(userId), locally or on the fulfilled request, every
\* notification the client holds has exactly one read receipt of that user
\* and the unread count is 0, while the notifications, the receipts of every
\* other user and so the number each other user has not read are unchanged.
C16_MarkAllReadReadsAll ==
  /\ \A i \in DOMAIN store.notifications, u \in UserIds :
       Cardinality(ReceiptsOf(store.notifications[i], u)) <= 1
  /\ \A u \in UserIds :
       \A after \in {MarkAllAsRead(store, u, now),
                     Settled(MarkAllAsRead(store, u, now))} :
         /\ after.unreadCount = 0
         /\ ClientUnread(after, u) = 0
         /\ Len(after.notifications) = Len(store.notifications)
         /\ \A i \in DOMAIN store.notifications :
              /\ after.notifications[i].id = store.notifications[i].id
              /\ Cardinality(ReceiptsOf(after.notifications[i], u)) = 1
              /\ ReceiptsOfOthers(after.notifications[i], u)
                   = ReceiptsOfOthers(store.notifications[i], u)
         /\ \A v \in UserIds \ {u} : ClientUnread(after, v) = ClientUnread(store, v)

\* Both notifications carry a receipt of user 1, one of them next to a
\* receipt user 2 had left before, and nothing is unread.
C16_Witness ==
  /\ Len(store.notifications) = 2
  /\ store.unreadCount = 0
  /\ \A i \in DOMAIN store.notifications :
       Cardinality(ReceiptsOf(store.notifications[i], 1)) = 1
  /\ \E i \in DOMAIN store.notifications :
       /\ Len(store.notifications[i].readBy) = 2
       /\ store.notifications[i].readBy[1].userId = 2

(***************************************************************************)
(* Properties of the lookups by id across tenants (TenantSpec).            *)
(***************************************************************************)
\* The answers of a set of outcomes, without the id that was asked for.
Answers(outs) == {[o.resp EXCEPT !.target = 0] : o \in outs}

\* The outcomes for an id of another family are 404s that leave the tables as
\* they are, and answer as the outcomes for an id that was never issued do.
C17_LikeMissing(outs, ghostOuts, unchanged) ==
  /\ Answers(outs) = Answers(ghostOuts)
  /\ \A o \in outs : o.resp.status = 404
  /\ unchanged

\* C17: updateItem, deleteItem, updateMerchant, deleteMerchant,
\* updateOrderStatus and markRead by a family member on the id of a row of
\* another family answer exactly as on an id that does not exist -- 404 with
\* the same body -- and change no table.
C17_OtherFamilyLooksMissing ==
  \A u \in UserIds :
    FamiliesOf(u) # {} =>
      /\ \A id \in DOMAIN items :
           items[id].familyId \notin FamiliesOf(u) =>
             /\ \A r \in UpdateRequests :
                  ValidUpdateItem(r) =>
                    C17_LikeMissing(
                      UpdateItemOutcomes(items, members, u, id, r),
                      UpdateItemOutcomes(items, members, u, Len(items) + 1, r),
                      \A o \in UpdateItemOutcomes(items, members, u, id, r) :
                        o.items = items)
             /\ C17_LikeMissing(
                  DeleteItemOutcomes(items, members, u, id),
                  DeleteItemOutcomes(items, members, u, Len(items) + 1),
                  \A o \in DeleteItemOutcomes(items, members, u, id) : o.items = items)
      /\ \A id \in DOMAIN merchants :
           merchants[id].familyId \notin FamiliesOf(u) =>
             /\ \A n \in Opt(MerchantNames) :
                  C17_LikeMissing(
                    UpdateMerchantOutcomes(merchants, orders, orderItems, members,
                                           u, id, n),
                    UpdateMerchantOutcomes(merchants, orders, orderItems, members,
                                           u, Len(merchants) + 1, n),
                    \A o \in UpdateMerchantOutcomes(merchants, orders, orderItems,
                                                    members, u, id, n) :
                      OrderTablesUnchanged(o))
             /\ C17_LikeMissing(
                  DeleteMerchantOutcomes(merchants, orders, orderItems, members, u, id),
                  DeleteMerchantOutcomes(merchants, orders, orderItems, members, u,
                                         Len(merchants) + 1),
                  \A o \in DeleteMerchantOutcomes(merchants, orders, orderItems,
                                                  members, u, id) :
                    OrderTablesUnchanged(o))
      /\ \A id \in DOMAIN orders :
           orders[id].familyId \notin FamiliesOf(u) =>
             \A s \in OrderStatuses :
               C17_LikeMissing(
                 UpdateOrderStatusOutcomes(merchants, orders, orderItems, members,
                                           u, id, s, now),
                 UpdateOrderStatusOutcomes(merchants, orders, orderItems, members,
                                           u, Len(orders) + 1, s, now),
                 \A o \in UpdateOrderStatusOutcomes(merchants, orders, orderItems,
                                                    members, u, id, s, now) :
                   OrderTablesUnchanged(o))
      /\ \A id \in DOMAIN notifications :
           notifications[id].familyId \notin FamiliesOf(u) =>
             C17_LikeMissing(
               MarkReadOutcomes(notifications, reads, members, u, id, now),
               MarkReadOutcomes(notifications, reads, members, u,
                                Len(notifications) + 1, now),
               \A o \in MarkReadOutcomes(notifications, reads, members, u, id, now) :
                 o.notifications = notifications /\ o.reads = reads)

\* The order of family 2 was asked for by someone who is not of family 2 and
\* was not found, after family 2 itself had moved it on.
C17_Witness ==
  /\ last.op = "updateOrderStatus"
  /\ last.status = 404 /\ last.message = "Order not found"
  /\ last.target \in DOMAIN orders
  /\ orders[last.target].familyId = 2
  /\ orders[last.target].status = "processing"

(***************************************************************************)
(* Properties of the write scope of a request (ScopeSpec).                 *)
(***************************************************************************)
\* The rows of a table that a write created or changed.
RowsWritten(old, new) == {i \in DOMAIN new : i \notin DOMAIN old \/ new[i] # old[i]}

\* A write that keeps every row, and creates or changes rows of the families
\* fams only; a changed row was of one of these families before as well.
WritesWithin(old, new, fams) ==
  /\ Len(new) >= Len(old)
  /\ \A i \in RowsWritten(old, new) :
       /\ new[i].familyId \in fams
       /\ i \in DOMAIN old => old[i].familyId \in fams

\* The same for the rows that belong to a family through their parent row:
\* an OrderItem through its Order, a NotificationRead through its
\* Notification.
ChildWritesWithin(old, new, parents, key, fams) ==
  /\ Len(new) >= Len(old)
  /\ \A i \in RowsWritten(old, new) :
       /\ new[i][key] \in DOMAIN parents
       /\ parents[new[i][key]].familyId \in fams

OrderWritesWithin(o, fams) ==
  /\ WritesWithin(merchants, o.merchants, fams)
  /\ WritesWithin(orders, o.orders, fams)
  /\ ChildWritesWithin(orderItems, o.orderItems, o.orders, "orderId", fams)

NoteWritesWithin(o, fams) ==
  /\ WritesWithin(notifications, o.notifications, fams)
  /\ ChildWritesWithin(reads, o.reads, o.notifications, "notificationId", fams)

\* Every outcome of every writing handler, run as one piece by user u on the
\* tables as they stand, writes rows of u's families only.
C18_HandlersWriteOwnFamily ==
  \A u \in UserIds :
    /\ \A r \in AddRequests :
         \A o \in AddItemOutcomes(items, members, u, r.name, r.quantity) :
           WritesWithin(items, o.items, FamiliesOf(u))
    /\ \A id \in ItemIds :
         /\ \A r \in UpdateRequests :
              \A o \in UpdateItemOutcomes(items, members, u, id, r) :
                WritesWithin(items, o.items, FamiliesOf(u))
         /\ \A o \in DeleteItemOutcomes(items, members, u, id) :
              WritesWithin(items, o.items, FamiliesOf(u))
    /\ \A n \in MerchantNameInputs :
         \A o \in AddMerchantOutcomes(merchants, orders, orderItems, members, u, n) :
           OrderWritesWithin(o, FamiliesOf(u))
    /\ \A id \in MerchantIds :
         /\ \A n \in Opt(MerchantNames) :
              \A o \in UpdateMerchantOutcomes(merchants, orders, orderItems,
                                              members, u, id, n) :
                OrderWritesWithin(o, FamiliesOf(u))
         /\ \A o \in DeleteMerchantOutcomes(merchants, orders, orderItems,
                                            members, u, id) :
              OrderWritesWithin(o, FamiliesOf(u))
    /\ \A m \in MerchantIdInputs, b \in OrderBodies :
         \A o \in CreateOrderOutcomes(merchants, orders, orderItems, items,
                                      members, u, m, b) :
           OrderWritesWithin(o, FamiliesOf(u))
    /\ \A id \in OrderIds, s \in StatusInputs :
         \A o \in UpdateOrderStatusOutcomes(merchants, orders, orderItems,
                                            members, u, id, s, now) :
           OrderWritesWithin(o, FamiliesOf(u))
    /\ \A t \in Titles, r \in RecipientInputs :
         \A o \in SendOutcomes(notifications, reads, members, u, t, r) :
           NoteWritesWithin(o, FamiliesOf(u))
    /\ \A n \in NotificationIds :
         \A o \in MarkReadOutcomes(notifications, reads, members, u, n, now) :
           NoteWritesWithin(o, FamiliesOf(u))

\* A step of the interleaved addItem handlers that writes an inventory row
\* is the create or the update of a request in flight, and the row is of a
\* family of which that request's user is a member when the row is written.
C18_StepWritesOwnFamily ==
  \A i \in RowsWritten(items, items') :
    \E k \in DOMAIN reqs :
      /\ reqs[k].pc \in {"merge", "create"}
      /\ reqs'[k].pc = "done"
      /\ items'[i].familyId = reqs[k].familyId
      /\ items'[i].familyId \in FamiliesOf(reqs[k].userId)
      /\ i \in DOMAIN items => items[i].familyId = items'[i].familyId

\* C18: no request creates or changes an inventory, merchant, order,
\* notification or notification-read row of a family of which the caller is
\* not a member: the family id that is written is the one of the caller's
\* membership row, also when requests interleave.
C18_WritesStayInCallersFamily ==
  /\ []C18_HandlersWriteOwnFamily
  /\ [][C18_StepWritesOwnFamily]_vars

\* User 3, whom the owner of family 1 added, had an item written to
\* family 1, next to the item of family 2.
C18_Witness ==
  \E k \in DOMAIN reqs :
    /\ reqs[k].pc = "done" /\ reqs[k].resp.status = 201
    /\ reqs[k].userId = 3
    /\ reqs[k].resp.itemId \in DOMAIN items
    /\ items[reqs[k].resp.itemId].familyId = 1
    /\ \E j \in DOMAIN items : items[j].familyId = 2

(***************************************************************************)
(* Properties of updateItem as a partial update (PatchSpec).               *)
(***************************************************************************)
\* The value a row holds in field f once the body has been applied to it.
C19_Given(body, f) ==
  IF f = "expiryDate" THEN <<ParseDate(body[f][1])>>
  ELSE IF f = "notes" THEN body[f]
  ELSE body[f][1]

\* updateItem by a member of the item's family on an active item writes the
\* fields the body defines, as given, and leaves every other field of the
\* item and every other item as it was.
C19_Frame(u, id, body, o) ==
  /\ o.resp.status = 200
  /\ DOMAIN o.items = DOMAIN items
  /\ \A j \in DOMAIN items : j # id => o.items[j] = items[j]
  /\ DOMAIN o.items[id] = DOMAIN items[id]
  /\ \A f \in DOMAIN items[id] :
       IF f \in UpdateFields /\ Present(body[f])
       THEN o.items[id][f] = C19_Given(body, f)
       ELSE o.items[id][f] = items[id][f]

C19_Applies(u, id, body) ==
  /\ ValidUpdateItem(body)
  /\ items[id].isActive
  /\ items[id].familyId \in FamiliesOf(u)

\* C19 as amended: updateItem on an existing active item of the caller's
\* family changes only the fields present in the request (among quantity,
\* expiryDate, name, category, notes), leaves every other field and every
\* other item unchanged, and returns as `updated` the set of fields present
\* in the request.
C19_UpdateItemWritesGivenFields ==
  \A u \in UserIds, id \in DOMAIN items, body \in PatchBodies :
    C19_Applies(u, id, body) =>
      \A o \in UpdateItemOutcomes(items, members, u, id, body) :
        /\ C19_Frame(u, id, body, o)
        /\ o.resp.updated = {f \in UpdateFields : Present(body[f])}

\* C19 as stated: updateItem on an existing active item of the caller's
\* family changes only the fields present in the request, leaves every other
\* field and every other item unchanged, and returns as `updated` the set of
\* fields actually changed.
C19_UpdatedAreTheChangedFields ==
  \A u \in UserIds, id \in DOMAIN items, body \in PatchBodies :
    C19_Applies(u, id, body) =>
      \A o \in UpdateItemOutcomes(items, members, u, id, body) :
        /\ C19_Frame(u, id, body, o)
        /\ o.resp.updated = {f \in UpdateFields : o.items[id][f] # items[id][f]}

\* "Milk" was given notes and nothing else: it still expires on day 1, and
\* the answer lists notes alone.
C19_Witness ==
  /\ last.op = "updateItem" /\ last.status = 200
  /\ last.updated = {"notes"}
  /\ last.target \in DOMAIN items
  /\ items[last.target].notes = <<"open">>
  /\ items[last.target].name = Milk
  /\ items[last.target].expiryDate = <<1>>
  /\ items[last.target].quantity = 1

(***************************************************************************)
(* Properties of the expiry classification (ExpirySpec).                   *)
(***************************************************************************)
\* The calendar day of an instant; today is day 0.
DayOf(t) == t \div DayLen

\* The classification as the claim states it, on calendar days.
C20_Class(item, today, expiryWarningDays) ==
  IF ~Present(item.expiryDate) THEN "fresh"
  ELSE LET daysUntilExpiry == DayOf(item.expiryDate[1]) - DayOf(today)
       IN IF daysUntilExpiry < 0 THEN "expired"
          ELSE IF daysUntilExpiry <= expiryWarningDays THEN "expiring"
          ELSE "fresh"

\* C20: the expiry classification gives each item exactly one result: fresh
\* without an expiry date, expired with an expiry date before today,
\* expiring with 0 <= daysUntilExpiry <= the family's expiryWarningDays, and
\* fresh otherwise; no item is counted both as expired and as expiring.
C20_ExpiryClassification ==
  /\ \A i \in DOMAIN screen.status :
       screen.status[i] =
         C20_Class(screen.items[i], screen.statusAt, screen.expiryWarningDays)
  /\ screen.counted =>
       /\ screen.expired =
            {i \in DOMAIN screen.items :
               C20_Class(screen.items[i], screen.countedAt,
                         screen.expiryWarningDays) = "expired"}
       /\ screen.expiring =
            {i \in DOMAIN screen.items :
               C20_Class(screen.items[i], screen.countedAt,
                         screen.expiryWarningDays) = "expiring"}
       /\ screen.expired \cap screen.expiring = {}

(***************************************************************************)
(* Properties of sorting by expiry date (SortSpec).                        *)
(***************************************************************************)
\* C21: in a list sorted by expiryDate, ascending or descending, every item
\* without an expiry date comes after every item with one, and the items
\* with an expiry date follow their dates in the direction asked for.
C21_NullExpiryDatesSortLast ==
  screen.sortedBy # "none" =>
    \A i, j \in DOMAIN screen.sorted :
      i < j =>
        LET a == screen.sorted[i]
            b == screen.sorted[j]
        IN /\ ~Present(a.expiryDate) => ~Present(b.expiryDate)
           /\ (Present(a.expiryDate) /\ Present(b.expiryDate)) =>
                IF screen.sortOrder = "asc"
                THEN a.expiryDate[1] <= b.expiryDate[1]
                ELSE a.expiryDate[1] >= b.expiryDate[1]

(***************************************************************************)
(* Properties of concurrent merges (ScopeSpec).                            *)
(***************************************************************************)
\* The answered addItem requests that merged into item e.
MergedInto(e) ==
  {k \in DOMAIN reqs :
     /\ reqs[k].pc = "done" /\ reqs[k].resp.status = 201
     /\ reqs[k].resp.isDuplicate /\ reqs[k].resp.itemId = e}

\* The merge of request a, then the merge of request b, and nothing else.
C22_Serial(e, a, b) ==
  /\ reqs[b].resp.previousQuantity =
       reqs[a].resp.previousQuantity + reqs[a].quantity
  /\ items[e].quantity = reqs[b].resp.previousQuantity + reqs[b].quantity

\* C22: once two addItem requests that merged into the same item are both
\* answered, and no other request merged into it, the item holds what it
\* held before plus both incoming quantities, and the two previousQuantity
\* values are those of one of the two serial orders.
C22_NoLostIncrement ==
  \A e \in DOMAIN items :
    (AllAnswered /\ Cardinality(MergedInto(e)) = 2) =>
      \E a, b \in MergedInto(e) :
        a # b /\ C22_Serial(e, a, b)

(***************************************************************************)
(* Properties of concurrent createFamily and joinFamily (DirConcSpec).     *)
(***************************************************************************)
\* The answered requests of user u that succeeded.
Succeeded(u) ==
  {k \in DOMAIN reqs :
     /\ reqs[k].pc = "done" /\ reqs[k].userId = u
     /\ reqs[k].resp.status \in {200, 201}}

\* C23: of the createFamily and joinFamily requests that one user sends
\* concurrently, at most one succeeds, and the user never holds more than
\* one FamilyMember row.
C23_OneMembershipUnderRace ==
  \A u \in UserIds :
    /\ Cardinality(Succeeded(u)) <= 1
    /\ Cardinality(MembershipsOf(members, u)) <= 1

(***************************************************************************)
(* Properties of callers without a family (TenantSpec).                    *)
(***************************************************************************)
\* One call: whether its body passes the validators, the answers it can get
\* and whether every outcome leaves the tables as they are.
Call(valid, answers, unchanged) ==
  [valid |-> valid, answers |-> answers, unchanged |-> unchanged]

InventoryCall(valid, outs) ==
  Call(valid, Answers(outs), \A o \in outs : o.items = items)

OrderCall(valid, outs) ==
  Call(valid, Answers(outs), \A o \in outs : OrderTablesUnchanged(o))

NoteCall(valid, outs) ==
  Call(valid, Answers(outs),
       \A o \in outs : o.notifications = notifications /\ o.reads = reads)

\* Every mutating call user u can make in the current state, on ids that
\* exist and ids that do not.
MutatingCalls(u) ==
  {InventoryCall(ValidAddItem(r.name, r.quantity),
                 AddItemOutcomes(items, members, u, r.name, r.quantity)) :
     r \in AddRequests}
  \cup {InventoryCall(ValidUpdateItem(r),
                      UpdateItemOutcomes(items, members, u, id, r)) :
          id \in ItemIds, r \in UpdateRequests}
  \cup {InventoryCall(TRUE, DeleteItemOutcomes(items, members, u, id)) :
          id \in ItemIds}
  \cup {OrderCall(ValidAddMerchant(n),
                  AddMerchantOutcomes(merchants, orders, orderItems, members, u, n)) :
          n \in MerchantNameInputs}
  \cup {OrderCall(ValidUpdateMerchant(n),
                  UpdateMerchantOutcomes(merchants, orders, orderItems, members,
                                         u, id, n)) :
          id \in MerchantIds, n \in Opt(MerchantNameInputs)}
  \cup {OrderCall(TRUE, DeleteMerchantOutcomes(merchants, orders, orderItems,
                                               members, u, id)) :
          id \in MerchantIds}
  \cup {OrderCall(ValidCreateOrder(b),
                  CreateOrderOutcomes(merchants, orders, orderItems, items,
                                      members, u, m, b)) :
          m \in MerchantIdInputs, b \in OrderBodies}
  \cup {OrderCall(s \in OrderStatuses,
                  UpdateOrderStatusOutcomes(merchants, orders, orderItems, members,
                                            u, id, s, now)) :
          id \in OrderIds, s \in StatusInputs}
  \cup {NoteCall(TRUE, MarkReadOutcomes(notifications, reads, members, u, id, now)) :
          id \in NotificationIds}
  \cup {NoteCall(ValidSend(t), SendOutcomes(notifications, reads, members, u, t, r)) :
          t \in Titles, r \in RecipientInputs}

HasNoFamily(u) == \A m \in DOMAIN members : members[m].userId # u

NotPartOfFamily(a) == a.status = 404 /\ a.message = "User not part of any family"

C25_MergeChangesQuantityOnly ==
  \A u \in UserIds, b \in AddBodies :
    \A o \in AddItemBodyOutcomes(items, members, u, b) :
      o.resp.isDuplicate =>
        LET e == o.resp.itemId
        IN /\ e \in DOMAIN items
           /\ o.items = [items EXCEPT ![e].quantity = items[e].quantity + b.quantity]

\* A merge happened whose request named the item in another letter case,
\* with another category, expiry date and notes, and came from another user
\* than the creator.
C25_Witness ==
  \E k \in DOMAIN reqs :
    /\ reqs[k].resp.isDuplicate
    /\ LET row == items[reqs[k].resp.itemId]
           b == reqs[k].body
       IN /\ row.name # b.name
          /\ row.category # b.category
          /\ row.expiryDate = <<>> /\ Present(b.expiryDate)
          /\ row.notes # b.notes
          /\ row.addedBy # reqs[k].userId
          /\ row.quantity = 2
          /\ Len(items) = 2

(***************************************************************************)
(* Properties of the stored quantities (Spec).                             *)
(***************************************************************************)
\* C26: whatever addItem, updateItem and deleteItem requests were handled,
\* no item holds a negative quantity; an addItem or updateItem with a
\* negative quantity is answered 400 Validation error and changes no row.
C26_QuantitiesNonNegative ==
  /\ \A i \in DOMAIN items : items[i].quantity >= 0
  /\ \A u \in UserIds :
       /\ \A r \in AddRequests :
            r.quantity < 0 =>
              \A o \in AddItemOutcomes(items, members, u, r.name, r.quantity) :
                /\ o.resp.status = 400 /\ o.resp.message = "Validation error"
                /\ o.items = items
       /\ \A id \in ItemIds, r \in UpdateRequests :
            (Present(r.quantity) /\ r.quantity[1] < 0) =>
              \A o \in UpdateItemOutcomes(items, members, u, id, r) :
                /\ o.resp.status = 400 /\ o.resp.message = "Validation error"
                /\ o.items = items

\* An updateItem was refused as malformed while the family held an item that
\* had been set to 0 and a deleted one.
C26_Witness ==
  /\ last.op = "updateItem"
  /\ last.status = 400
  /\ \E i \in DOMAIN items : items[i].isActive /\ items[i].quantity = 0
  /\ \E i \in DOMAIN items : ~items[i].isActive

(***************************************************************************)
(* Properties of the inventory references of orders (OrderSpec).           *)
(***************************************************************************)
\* GET /orders: include items.inventoryItem { id, name } on the orders of the
\* caller's family -- the inventory items the answer names.
IncludedInventoryItems(familyId) ==
  {[id |-> orderItems[i].inventoryItemId[1],
    name |-> items[orderItems[i].inventoryItemId[1]].name] :
     i \in {j \in DOMAIN orderItems :
              /\ orders[orderItems[j].orderId].familyId = familyId
              /\ Present(orderItems[j].inventoryItemId)}}

\* C27: every OrderItem with an inventoryItemId refers to an InventoryItem of
\* the family of its order, and the orders listed for a family name inventory
\* items of that family only.
C27_OrderItemsReferToOwnFamily ==
  /\ \A i \in DOMAIN orderItems :
       Present(orderItems[i].inventoryItemId) =>
         items[orderItems[i].inventoryItemId[1]].familyId
           = orders[orderItems[i].orderId].familyId
  /\ \A f \in DOMAIN families :
       \A x \in IncludedInventoryItems(f) : items[x.id].familyId = f

(***************************************************************************)
(* Properties of the recipients of notifications (NoteSpec).               *)
(***************************************************************************)
\* C28: the recipients of every notification are members of the
\* notification's family (no handler removes a member, so the members of a
\* family now include its members at any earlier time).
C28_RecipientsAreFamilyMembers ==
  \A n \in DOMAIN notifications :
    \A r \in notifications[n].recipients :
      \E m \in DOMAIN members :
        members[m].userId = r /\ members[m].familyId = notifications[n].familyId

(***************************************************************************)
(* Properties of addItem after a soft delete (Spec).                       *)
(***************************************************************************)
\* The soft-deleted rows of the family under the name, in any letter case.
DeletedUnder(familyId, name) ==
  {i \in DOMAIN items :
     /\ items[i].familyId = familyId
     /\ EqualsInsensitive(items[i].name, name)
     /\ ~items[i].isActive}

\* C30: when the only rows of a name in the caller's family are
\* soft-deleted, a valid addItem of that name creates a new active row
\* holding exactly the incoming quantity and answers isDuplicate = FALSE;
\* the deleted rows, like every other row, stay as they are.
C30_AddAfterDeleteCreatesAnew ==
  \A u \in UserIds, r \in AddRequests :
    ValidAddItem(r.name, r.quantity) =>
      \A f \in FamiliesOf(u) :
        (/\ DeletedUnder(f, r.name) # {}
         /\ \A i \in DOMAIN items :
              (items[i].familyId = f /\ EqualsInsensitive(items[i].name, r.name))
                => ~items[i].isActive) =>
          \A o \in AddItemOutcomes(items, members, u, r.name, r.quantity) :
            /\ o.resp.status = 201
            /\ ~o.resp.isDuplicate
            /\ o.resp.itemId = Len(items) + 1
            /\ Len(o.items) = Len(items) + 1
            /\ SubSeq(o.items, 1, Len(items)) = items
            /\ o.items[Len(items) + 1].isActive
            /\ o.items[Len(items) + 1].familyId = f
            /\ o.items[Len(items) + 1].name = r.name
            /\ o.items[Len(items) + 1].quantity = r.quantity

\* An addItem created a row next to a soft-deleted row of the same name that
\* still holds another quantity.
C30_Witness ==
  /\ last.op = "addItem"
  /\ last.status = 201
  /\ ~last.isDuplicate
  /\ last.itemId \in DOMAIN items
  /\ items[last.itemId].isActive
  /\ \E d \in DeletedUnder(items[last.itemId].familyId, items[last.itemId].name) :
       /\ d < last.itemId
       /\ items[d].quantity # items[last.itemId].quantity

(***************************************************************************)
(* Properties of deleteItem racing updateItem and addItem (LifeSpec).      *)
(***************************************************************************)
\* Request k is answered in this step.
AnsweredNow(k) == reqs[k].pc # "done" /\ reqs'[k].pc = "done"

\* No step writes to a row that is already inactive.
InactiveRowsUntouched ==
  \A i \in DOMAIN items : ~items[i].isActive => items'[i] = items[i]

\* An addItem answered with success leaves an active row of its name that
\* holds the added quantity (the row it reports, at least its quantity).
AddItemLandsOnActive ==
  \A k \in DOMAIN reqs :
    (AnsweredNow(k) /\ reqs'[k].resp.op = "addItem" /\ reqs'[k].resp.status = 201) =>
      LET row == items'[reqs'[k].resp.itemId]
      IN /\ row.isActive
         /\ EqualsInsensitive(row.name, reqs[k].name)
         /\ row.quantity >= reqs[k].quantity

\* An updateItem answered with success was applied to an active row.
UpdateItemAppliedToActive ==
  \A k \in DOMAIN reqs :
    (AnsweredNow(k) /\ reqs'[k].resp.op = "updateItem" /\ reqs'[k].resp.status = 200) =>
      items[reqs[k].itemId].isActive

\* C29: with deleteItem running concurrently with updateItem or a merging
\* addItem on the same item, no step writes to a row whose active flag is
\* already false, every addItem answered with success leaves an active row
\* of its name holding the added quantity, and every updateItem answered
\* with success was applied to an active row.
C29_DeletedRowsAreNotWritten ==
  [][/\ InactiveRowsUntouched
     /\ AddItemLandsOnActive
     /\ UpdateItemAppliedToActive]_vars


====
